---- MODULE Spec2Model ----
(***************************************************************************)
(* A model of the fast-tlsh fuzzy hash generator (src/fast-tlsh/src):      *)
(* the Pearson bucket mapping, the streaming generator (update,            *)
(* processed_len, finalize_with_options), the generator options and the    *)
(* data length handling.                                                   *)
(*                                                                         *)
(* Numbers.  The generator counts in u32 and the Q ratios are computed in  *)
(* u64 and f32, while the model checker's integers stop at 2^31 - 1.  A    *)
(* value that can exceed that is therefore kept as a pair <<hi, lo>> that  *)
(* stands for hi * 2^16 + lo with 0 <= lo < 2^16 ("wide" value).  U(n)     *)
(* makes the wide value of a small integer, Dec(m, r) the one of           *)
(* m * 10^6 + r, so that 4224281216 is written Dec(4224, 281216).          *)
(***************************************************************************)
EXTENDS Integers, Sequences, FiniteSets, TLC

(***************************************************************************)
(* Wide (multi-limb) unsigned arithmetic.                                  *)
(***************************************************************************)
Limb == 2^16

WNorm(h, l) == <<h + (l \div Limb), l % Limb>>

U(n) == <<n \div Limb, n % Limb>>

\* m * 10^6 + r, with 10^6 = 15 * 2^16 + 16960
Dec(m, r) == WNorm(15 * m, 16960 * m + r)

WAdd(a, b) == WNorm(a[1] + b[1], a[2] + b[2])

\* a - b for a >= b
WSub(a, b) ==
  IF a[2] >= b[2] THEN <<a[1] - b[1], a[2] - b[2]>>
                  ELSE <<a[1] - b[1] - 1, a[2] + Limb - b[2]>>

WLt(a, b) == a[1] < b[1] \/ (a[1] = b[1] /\ a[2] < b[2])

WLe(a, b) == a[1] < b[1] \/ (a[1] = b[1] /\ a[2] <= b[2])

WMin(a, b) == IF WLe(a, b) THEN a ELSE b

\* a * k for a small factor k (k < 2^15, a < 2^32)
WMul(a, k) == WNorm(a[1] * k, a[2] * k)

\* quotient and remainder of a by a small divisor k (0 < k < 2^15)
WDivSmall(a, k) == WNorm(a[1] \div k, ((a[1] % k) * Limb + a[2]) \div k)

WModSmall(a, k) == ((a[1] % k) * Limb + a[2]) % k

\* a + a
WDbl(a) == WNorm(2 * a[1], 2 * a[2])

WZero == <<0, 0>>

WOne == <<0, 1>>

\* 2^32
TwoPow32 == <<Limb, 0>>

\* u32::MAX = 2^32 - 1
U32_MAX == <<Limb - 1, Limb - 1>>

\* reduction modulo 2^32 (the wrapping u32 operations of the code)
Wrap32(a) == <<a[1] % Limb, a[2]>>

\* the small integer a wide value stands for (only for values below 2^16)
WSmall(a) == a[2]

IsSmall(a) == a[1] = 0

(***************************************************************************)
(* Bitwise exclusive or of two bytes, from the table of the exclusive or   *)
(* of two 4-bit values: XorNibble[a + 1][b + 1] is a ^ b.                  *)
(***************************************************************************)
XorNibble ==
  << <<0, 1, 2, 3, 4, 5, 6, 7, 8, 9, 10, 11, 12, 13, 14, 15>>,
    <<1, 0, 3, 2, 5, 4, 7, 6, 9, 8, 11, 10, 13, 12, 15, 14>>,
    <<2, 3, 0, 1, 6, 7, 4, 5, 10, 11, 8, 9, 14, 15, 12, 13>>,
    <<3, 2, 1, 0, 7, 6, 5, 4, 11, 10, 9, 8, 15, 14, 13, 12>>,
    <<4, 5, 6, 7, 0, 1, 2, 3, 12, 13, 14, 15, 8, 9, 10, 11>>,
    <<5, 4, 7, 6, 1, 0, 3, 2, 13, 12, 15, 14, 9, 8, 11, 10>>,
    <<6, 7, 4, 5, 2, 3, 0, 1, 14, 15, 12, 13, 10, 11, 8, 9>>,
    <<7, 6, 5, 4, 3, 2, 1, 0, 15, 14, 13, 12, 11, 10, 9, 8>>,
    <<8, 9, 10, 11, 12, 13, 14, 15, 0, 1, 2, 3, 4, 5, 6, 7>>,
    <<9, 8, 11, 10, 13, 12, 15, 14, 1, 0, 3, 2, 5, 4, 7, 6>>,
    <<10, 11, 8, 9, 14, 15, 12, 13, 2, 3, 0, 1, 6, 7, 4, 5>>,
    <<11, 10, 9, 8, 15, 14, 13, 12, 3, 2, 1, 0, 7, 6, 5, 4>>,
    <<12, 13, 14, 15, 8, 9, 10, 11, 4, 5, 6, 7, 0, 1, 2, 3>>,
    <<13, 12, 15, 14, 9, 8, 11, 10, 5, 4, 7, 6, 1, 0, 3, 2>>,
    <<14, 15, 12, 13, 10, 11, 8, 9, 6, 7, 4, 5, 2, 3, 0, 1>>,
    <<15, 14, 13, 12, 11, 10, 9, 8, 7, 6, 5, 4, 3, 2, 1, 0>> >>

\* a function on 1..256 as a tuple
Table(f) == SubSeq(f, 1, 256)

\* XorTable[a + 1][b + 1] is a ^ b for bytes a and b
XorTable ==
  Table([a \in 1..256 |->
    Table([b \in 1..256 |->
      16 * XorNibble[((a - 1) \div 16) + 1][((b - 1) \div 16) + 1]
      + XorNibble[((a - 1) % 16) + 1][((b - 1) % 16) + 1]])])

Xor(a, b) == XorTable[a + 1][b + 1]

(***************************************************************************)
(* pearson.rs: Pearson hashing and the TLSH B (bucket) mapping.            *)
(***************************************************************************)
INITIAL_STATE == 0

SUBST_TABLE ==
  <<\h01, \h57, \h31, \h0c, \hb0, \hb2, \h66, \ha6, \h79, \hc1, \h06, \h54, \hf9, \he6, \h2c, \ha3,
    \h0e, \hc5, \hd5, \hb5, \ha1, \h55, \hda, \h50, \h40, \hef, \h18, \he2, \hec, \h8e, \h26, \hc8,
    \h6e, \hb1, \h68, \h67, \h8d, \hfd, \hff, \h32, \h4d, \h65, \h51, \h12, \h2d, \h60, \h1f, \hde,
    \h19, \h6b, \hbe, \h46, \h56, \hed, \hf0, \h22, \h48, \hf2, \h14, \hd6, \hf4, \he3, \h95, \heb,
    \h61, \hea, \h39, \h16, \h3c, \hfa, \h52, \haf, \hd0, \h05, \h7f, \hc7, \h6f, \h3e, \h87, \hf8,
    \hae, \ha9, \hd3, \h3a, \h42, \h9a, \h6a, \hc3, \hf5, \hab, \h11, \hbb, \hb6, \hb3, \h00, \hf3,
    \h84, \h38, \h94, \h4b, \h80, \h85, \h9e, \h64, \h82, \h7e, \h5b, \h0d, \h99, \hf6, \hd8, \hdb,
    \h77, \h44, \hdf, \h4e, \h53, \h58, \hc9, \h63, \h7a, \h0b, \h5c, \h20, \h88, \h72, \h34, \h0a,
    \h8a, \h1e, \h30, \hb7, \h9c, \h23, \h3d, \h1a, \h8f, \h4a, \hfb, \h5e, \h81, \ha2, \h3f, \h98,
    \haa, \h07, \h73, \ha7, \hf1, \hce, \h03, \h96, \h37, \h3b, \h97, \hdc, \h5a, \h35, \h17, \h83,
    \h7d, \had, \h0f, \hee, \h4f, \h5f, \h59, \h10, \h69, \h89, \he1, \he0, \hd9, \ha0, \h25, \h7b,
    \h76, \h49, \h02, \h9d, \h2e, \h74, \h09, \h91, \h86, \he4, \hcf, \hd4, \hca, \hd7, \h45, \he5,
    \h1b, \hbc, \h43, \h7c, \ha8, \hfc, \h2a, \h04, \h1d, \h6c, \h15, \hf7, \h13, \hcd, \h27, \hcb,
    \he9, \h28, \hba, \h93, \hc6, \hc0, \h9b, \h21, \ha4, \hbf, \h62, \hcc, \ha5, \hb4, \h75, \h4c,
    \h8c, \h24, \hd2, \hac, \h29, \h36, \h9f, \h08, \hb9, \he8, \h71, \hc4, \he7, \h2f, \h92, \h78,
    \h33, \h41, \h1c, \h90, \hfe, \hdd, \h5d, \hbd, \hc2, \h8b, \h70, \h2b, \h47, \h6d, \hb8, \hd1 >>

SUBST_TABLE_48 ==
  [i \in 1..256 |-> IF SUBST_TABLE[i] >= 240 THEN 48 ELSE SUBST_TABLE[i] % 48]

pearson_update(state, value) == SUBST_TABLE[Xor(state, value) + 1]

init(value) == pearson_update(INITIAL_STATE, value)

update_double(state, b1, b2) == pearson_update(pearson_update(state, b1), b2)

final_256(state, value) == pearson_update(state, value)

final_48(state, value) == SUBST_TABLE_48[Xor(state, value) + 1]

tlsh_b_mapping_256(b0, b1, b2, b3) == final_256(update_double(init(b0), b1, b2), b3)

tlsh_b_mapping_48(b0, b1, b2, b3) == final_48(update_double(init(b0), b1, b2), b3)

(***************************************************************************)
(* internals/length.rs: the data length limits and the length encoding.    *)
(***************************************************************************)
ENCODED_VALUE_SIZE == 170

TOP_VALUE_BY_ENCODING ==
  <<U(1), U(2), U(3), U(5), U(7),
    U(11), U(17), U(25), U(38), U(57),
    U(86), U(129), U(194), U(291), U(437),
    U(656), U(854), U(1110), U(1443), U(1876),
    U(2439), U(3171), U(3475), U(3823), U(4205),
    U(4626), U(5088), U(5597), U(6157), U(6772),
    U(7450), U(8195), U(9014), U(9916), U(10907),
    U(11998), U(13198), U(14518), U(15970), U(17567),
    U(19323), U(21256), U(23382), U(25720), U(28292),
    U(31121), U(34233), U(37656), U(41422), U(45564),
    U(50121), U(55133), U(60646), U(66711), U(73382),
    U(80721), U(88793), U(97672), U(107439), U(118183),
    U(130002), U(143002), U(157302), U(173032), U(190335),
    U(209369), U(230306), U(253337), U(278670), U(306538),
    U(337191), U(370911), U(408002), U(448802), U(493682),
    U(543050), U(597356), U(657091), U(722800), U(795081),
    U(874589), U(962048), U(1058252), U(1164078), U(1280486),
    U(1408534), U(1549388), U(1704327), U(1874759), U(2062236),
    U(2268459), U(2495305), U(2744836), U(3019320), U(3321252),
    U(3653374), U(4018711), U(4420582), U(4862641), U(5348905),
    U(5883796), U(6472176), U(7119394), U(7831333), U(8614467),
    U(9475909), U(10423501), U(11465851), U(12612437), U(13873681),
    U(15261050), U(16787154), U(18465870), U(20312458), U(22343706),
    U(24578077), U(27035886), U(29739474), U(32713425), U(35984770),
    U(39583245), U(43541573), U(47895730), U(52685306), U(57953837),
    U(63749221), U(70124148), U(77136564), U(84850228), U(93335252),
    U(102668779), U(112935659), U(124229227), U(136652151), U(150317384),
    U(165349128), U(181884040), U(200072456), U(220079703), U(242087671),
    U(266296456), U(292926096), U(322218735), U(354440623), U(389884688),
    U(428873168), U(471760495), U(518936559), U(570830240), U(627913311),
    U(690704607), U(759775136), U(835752671), U(919327967), U(1011260767),
    U(1112386880), U(1223623232), U(1345985727), U(1480584256), U(1628642751),
    U(1791507135), U(1970657856), Dec(2167, 723648), Dec(2384, 496256), Dec(2622, 945920),
    Dec(2885, 240448), Dec(3173, 764736), Dec(3491, 141248), Dec(3840, 255616), Dec(4224, 281216) >>

\* length::MAX
MAX == TOP_VALUE_BY_ENCODING[Len(TOP_VALUE_BY_ENCODING)]

\* LengthProcessingInfo::<SIZE_BUCKETS>::MIN
MIN(SIZE_BUCKETS) == IF SIZE_BUCKETS = 48 THEN 10 ELSE 50

\* LengthProcessingInfo::<SIZE_BUCKETS>::MIN_CONSERVATIVE
MIN_CONSERVATIVE(SIZE_BUCKETS) == IF SIZE_BUCKETS = 48 THEN 10 ELSE 128

\* DataLengthValidity::new::<SIZE_BUCKETS>(len), len a wide value
DataLengthValidity_new(SIZE_BUCKETS, len) ==
  IF WLt(len, U(MIN(SIZE_BUCKETS))) THEN "TooSmall"
  ELSE IF WLt(len, U(MIN_CONSERVATIVE(SIZE_BUCKETS))) THEN "ValidWhenOptimistic"
  ELSE IF WLe(len, MAX) THEN "Valid"
  ELSE "TooLarge"

\* DataLengthValidity::is_err_on(mode)
is_err_on_any_mode(validity, mode) == validity \in {"TooLarge", "TooSmall"}

is_err_on_small_only(validity, mode) ==
  CASE validity = "TooSmall" -> TRUE
    [] validity = "Valid" -> FALSE
    [] OTHER -> mode = "Conservative"

is_err_on(validity, mode) ==
  CASE validity \in {"TooLarge", "TooSmall"} -> TRUE
    [] validity = "Valid" -> FALSE
    [] validity = "ValidWhenOptimistic" -> mode = "Conservative"

\* slice::binary_search on TOP_VALUE_BY_ENCODING[lo+1 .. hi] (0-based
\* half-open range lo..hi): the index of len when it is present, the index
\* where it would be inserted otherwise
RECURSIVE binary_search(_, _, _)
binary_search(len, lo, hi) ==
  IF lo >= hi THEN lo
  ELSE LET mid == lo + ((hi - lo) \div 2) IN
       IF WLt(TOP_VALUE_BY_ENCODING[mid + 1], len)
       THEN binary_search(len, mid + 1, hi)
       ELSE binary_search(len, lo, mid)

\* FuzzyHashLengthEncoding::new(len): <<>> is None, <<lvalue>> is Some
FuzzyHashLengthEncoding_new(len) ==
  IF len = WZero THEN <<0>>
  ELSE IF WLt(MAX, len) THEN <<>>
  ELSE <<binary_search(len, 0, ENCODED_VALUE_SIZE)>>

(***************************************************************************)
(* internals/params.rs: the five fuzzy hash types.                         *)
(***************************************************************************)
NUM_BUCKETS_SHORT == 48

NUM_BUCKETS_NORMAL == 128

NUM_BUCKETS_LONG == 256

CHECKSUM_SIZE_NORMAL == 1

CHECKSUM_SIZE_LONG == 3

Short == [SIZE_CKSUM |-> CHECKSUM_SIZE_NORMAL, SIZE_BUCKETS |-> NUM_BUCKETS_SHORT]

Normal == [SIZE_CKSUM |-> CHECKSUM_SIZE_NORMAL, SIZE_BUCKETS |-> NUM_BUCKETS_NORMAL]

NormalWithLongChecksum ==
  [SIZE_CKSUM |-> CHECKSUM_SIZE_LONG, SIZE_BUCKETS |-> NUM_BUCKETS_NORMAL]

Long == [SIZE_CKSUM |-> CHECKSUM_SIZE_NORMAL, SIZE_BUCKETS |-> NUM_BUCKETS_LONG]

LongWithLongChecksum ==
  [SIZE_CKSUM |-> CHECKSUM_SIZE_LONG, SIZE_BUCKETS |-> NUM_BUCKETS_LONG]

(***************************************************************************)
(* internals/buckets.rs: the bucket mapper and the bucket data.            *)
(***************************************************************************)
\* FuzzyHashBucketMapper::MIN_NONZERO_BUCKETS
MIN_NONZERO_BUCKETS_half(SIZE_BUCKETS) ==
  IF SIZE_BUCKETS = NUM_BUCKETS_SHORT THEN 18 ELSE SIZE_BUCKETS \div 2

MIN_NONZERO_BUCKETS(SIZE_BUCKETS) ==
  IF SIZE_BUCKETS = NUM_BUCKETS_SHORT THEN 18 ELSE SIZE_BUCKETS \div 2 + 1

\* FuzzyHashBucketMapper::b_mapping
b_mapping(SIZE_BUCKETS, b0, b1, b2, b3) ==
  IF SIZE_BUCKETS = NUM_BUCKETS_SHORT
  THEN tlsh_b_mapping_48(b0, b1, b2, b3)
  ELSE tlsh_b_mapping_256(b0, b1, b2, b3)

\* FuzzyHashBucketsData::new(): 256 counters (feature opt-low-memory-buckets
\* off); counter i is
\* element i + 1 of the sequence
FuzzyHashBucketsData_new == SubSeq([i \in 1..256 |-> WZero], 1, 256)

\* FuzzyHashBucketsData::new() with the feature opt-low-memory-buckets:
\* SIZE_BUCKETS counters
FuzzyHashBucketsData_new_low_memory(SIZE_BUCKETS) ==
  SubSeq([i \in 1..SIZE_BUCKETS |-> WZero], 1, SIZE_BUCKETS)

\* FuzzyHashBucketsData::increment(index).  The array has 256 counters, or
\* SIZE_BUCKETS with the feature opt-low-memory-buckets; only with that
\* feature, and unless b_mapping stays within the buckets (which it does
\* for 256 of them), an index of SIZE_BUCKETS or more returns early.
increment_clamping(SIZE_BUCKETS, buckets, index) ==
  LET i == IF index >= Len(buckets) THEN Len(buckets) - 1 ELSE index
  IN [buckets EXCEPT ![i + 1] = Wrap32(WAdd(@, WOne))]

increment(SIZE_BUCKETS, buckets, index) ==
  LET low_memory == Len(buckets) = SIZE_BUCKETS
      IS_B_MAPPING_CONSTRAINED_WITHIN_BUCKETS == SIZE_BUCKETS = NUM_BUCKETS_LONG
  IN IF low_memory /\ ~IS_B_MAPPING_CONSTRAINED_WITHIN_BUCKETS
        /\ index >= SIZE_BUCKETS
     THEN buckets
     ELSE [buckets EXCEPT ![index + 1] = Wrap32(WAdd(@, WOne))]

\* FuzzyHashBucketsData::data(): the first SIZE_BUCKETS counters as a
\* sequence
buckets_data(SIZE_BUCKETS, buckets) == SubSeq(buckets, 1, SIZE_BUCKETS)

(***************************************************************************)
(* hash/checksum.rs: the checksum updated by the generator.                *)
(***************************************************************************)
FuzzyHashChecksumData_new(SIZE_CKSUM) == [i \in 1..SIZE_CKSUM |-> 0]

\* InnerChecksum::update(curr, prev), for the 1-byte and the 3-byte checksum
checksum_update(ty, cksum, curr, prev) ==
  LET d0 == b_mapping(ty.SIZE_BUCKETS, 0, curr, prev, cksum[1]) IN
  IF ty.SIZE_CKSUM = CHECKSUM_SIZE_NORMAL THEN <<d0>>
  ELSE LET d1 == tlsh_b_mapping_256(d0, curr, prev, cksum[2])
           d2 == tlsh_b_mapping_256(d1, curr, prev, cksum[3])
       IN <<d0, d1, d2>>


(***************************************************************************)
(* Input data.  An input is a literal prefix followed by the endless       *)
(* repetition of a period; a slice of it is the argument of one update().  *)
(***************************************************************************)
\* generate/tests.rs
BUCKETS_FILLED_12_OF_48 ==
  <<\h73, \h28, \h65, \hba, \heb, \h85, \h57, \h96, \h0c, \hea>>

\* generate/tests.rs
BUCKETS_FILLED_13_OF_48 ==
  <<\h41, \h3d, \had, \ha3, \h16, \h7f, \h2d, \hde, \had, \hec>>

\* generate/tests.rs
BUCKETS_FILLED_17_OF_48 ==
  <<\hcb, \h10, \h6e, \hca, \h69, \h45, \hb7, \h81, \h1b, \h57>>

\* generate/tests.rs
BUCKETS_FILLED_18_OF_48 ==
  <<\h08, \h16, \h8c, \hb0, \h65, \hf5, \h93, \hbb, \h88, \haf>>

\* generate/tests.rs
BUCKETS_FILLED_32_OF_128 ==
  <<\he3, \h77, \h84, \h3a, \hb1, \h5e, \h6b, \h02, \h50, \h18,
    \h4b, \h45, \h23, \h47, \he1, \h1a, \h90, \h05, \h3a, \h29,
    \h7f, \hcd, \h05, \he2, \heb, \hec, \h44, \h1f, \hb5, \he8,
    \he5, \hb5, \h7c, \h3f, \hff, \h7f, \h1d, \h99, \h05, \hfb,
    \hc7, \hca, \hdf, \h87, \hed, \h07, \hff, \h8b, \hdb, \had>>

\* generate/tests.rs
BUCKETS_FILLED_33_OF_128 ==
  <<\h45, \h77, \h4f, \hfa, \he9, \hc6, \h83, \hfe, \h36, \hee,
    \h63, \h0a, \h51, \ha7, \hcb, \ha2, \h24, \h79, \h39, \hd5,
    \h9a, \h7b, \h52, \h95, \hf0, \hc5, \h29, \hf2, \h5f, \h0b,
    \hd2, \h28, \hdd, \h7e, \hfe, \haf, \hc0, \h50, \h86, \hf5,
    \hf4, \h3d, \h4d, \h0d, \h2f, \hc0, \hd9, \h57, \hf5, \h2a>>

\* generate/tests.rs
BUCKETS_FILLED_64_OF_128 ==
  <<\hcc, \h00, \h19, \hfe, \ha3, \h63, \h1b, \he7, \h6f, \hf4,
    \h86, \h7d, \hfd, \h06, \hcd, \hfc, \h2a, \h20, \h6d, \h61,
    \he7, \h88, \ha8, \h07, \h96, \h4d, \ha0, \h19, \h01, \h0b,
    \ha8, \h4a, \h2a, \hd8, \hbc, \had, \hbe, \hc6, \h04, \h50,
    \hb8, \hbf, \h65, \hb6, \h3f, \h7d, \hb4, \h71, \hee, \h49>>

\* generate/tests.rs
BUCKETS_FILLED_65_OF_128 ==
  <<\ha1, \hdb, \hcb, \h51, \h8c, \h2c, \h5d, \hc9, \h6a, \h85,
    \h20, \hcc, \had, \h70, \h47, \had, \h3c, \h18, \h16, \h7a,
    \hf5, \hd5, \hcc, \hdd, \h38, \h3b, \h24, \hb4, \h3d, \h7f,
    \h1f, \hc7, \h3a, \h8e, \hbf, \h27, \hca, \hcc, \hb6, \hc9,
    \h35, \hc0, \h58, \hdc, \h76, \hd9, \h4e, \h31, \hea, \hb2>>

\* generate/tests.rs
BUCKETS_FILLED_64_OF_256 ==
  <<\h30, \h76, \haa, \h04, \h8b, \h53, \h71, \he3, \h9a, \h2d,
    \hcb, \hb2, \hd3, \h0f, \h9a, \h2d, \hcb, \hb2, \hd3, \h0f,
    \h9a, \h2d, \hcb, \hb2, \hd3, \h0f, \h9a, \h2d, \hcb, \hb2,
    \hd3, \h0f, \h9a, \h2d, \hcb, \hb2, \hd3, \h0f, \h9a, \h2d,
    \hcb, \hb2, \hd3, \h0f, \h9a, \h2d, \hcb, \hb2, \hd3, \h0f>>

\* generate/tests.rs
BUCKETS_FILLED_65_OF_256 ==
  <<\h64, \he5, \h33, \haa, \h14, \h82, \h2a, \h45, \h82, \h50,
    \hdc, \h32, \hd3, \hd0, \h53, \hd6, \h7c, \h32, \hd3, \hd0,
    \h53, \hd6, \h7c, \h32, \hd3, \hd0, \h53, \hd6, \h7c, \h32,
    \hd3, \hd0, \h53, \hd6, \h7c, \h32, \hd3, \hd0, \h53, \hd6,
    \h7c, \h32, \hd3, \hd0, \h53, \hd6, \h7c, \h32, \hd3, \hd0>>

\* generate/tests.rs
BUCKETS_FILLED_128_OF_256 ==
  <<\hb8, \h56, \hea, \hca, \h15, \ha2, \h57, \h23, \hd2, \h25,
    \hf1, \h4c, \h58, \hd3, \hca, \h1a, \h54, \hf6, \h09, \h07,
    \hb0, \h89, \hce, \hf1, \h35, \h3d, \h25, \he4, \hfc, \h48,
    \heb, \ha1, \hab, \h49, \hc8, \h01, \h67, \h64, \h93, \h60,
    \hbb, \hf3, \h39, \h98, \hc0, \ha9, \h3e, \h8b, \h37, \hce>>

\* generate/tests.rs
BUCKETS_FILLED_129_OF_256 ==
  <<\h0d, \h52, \h88, \h4e, \hfc, \h77, \h3f, \h47, \h12, \h8e,
    \h36, \h30, \h6f, \h1a, \h7d, \h0b, \h52, \h1e, \h98, \h5c,
    \hc5, \ha0, \h1f, \hb2, \ha9, \h43, \hae, \he6, \h4f, \h69,
    \h61, \h9e, \ha3, \hab, \hdd, \h2b, \he6, \h60, \h61, \h5c,
    \h30, \h47, \ha4, \h80, \h7a, \hde, \h60, \hb4, \h7c, \h26>>

\* generate/tests.rs
STATISTICALLY_OKAY_WITH_LEN_9 ==
  <<\h1d, \h98, \h29, \h36, \h25, \hcb, \hf5, \he2, \h46>>

\* generate/tests.rs
STATISTICALLY_OKAY_WITH_LEN_49 ==
  <<\h6c, \hbc, \h89, \he1, \h61, \h9e, \h8e, \heb, \hcc, \h8e,
    \hbc, \h2a, \h17, \h0b, \he4, \hcc, \h25, \hca, \hf2, \he9,
    \he8, \h6e, \hbc, \h69, \h25, \h56, \hb5, \h5c, \he5, \h69,
    \hf8, \h48, \h62, \hf0, \h00, \h97, \hf0, \hee, \had, \h35,
    \hc3, \hed, \h41, \hf6, \h65, \h8a, \h02, \h43, \h37>>

\* b"Hello, World!" (generate/tests.rs, generator_update_strategies)
HELLO_WORLD ==
  <<72, 101, 108, 108, 111, 44, 32, 87, 111, 114, 108, 100, 33>>

\* the repeated unit of generator_with_a40e_repetitions (generate/tests.rs)
A40E == <<\ha4, \h0e>>

ZERO == <<0>>

\* the byte at offset i (a wide number) of the input s
byte_at(s, i) ==
  IF WLt(i, U(Len(s.pre))) THEN s.pre[WSmall(i) + 1]
  ELSE s.per[WModSmall(WSub(i, U(Len(s.pre))), Len(s.per)) + 1]

\* data: &[u8], the `n` bytes of `s` from offset `from`
slice(s, from, n) == [s |-> s, from |-> from, n |-> n]

\* data[i]
at(d, i) == byte_at(d.s, WAdd(d.from, U(i)))

\* &data[k..]
skip(d, k) == [d EXCEPT !.from = WAdd(@, k), !.n = WSub(@, k)]

\* &data[..k]
take(d, k) == [d EXCEPT !.n = k]

\* a period that fills more than three quarters of the 48 buckets
ABCDEFGHIJKL == <<65, 66, 67, 68, 69, 70, 71, 72, 73, 74, 75, 76>>

\* the named inputs
Input(name) ==
  CASE name = "HELLO_WORLD" -> [pre |-> HELLO_WORLD, per |-> ZERO]
    [] name = "BUCKETS_FILLED_12_OF_48" ->
         [pre |-> BUCKETS_FILLED_12_OF_48, per |-> ZERO]
    [] name = "BUCKETS_FILLED_13_OF_48" ->
         [pre |-> BUCKETS_FILLED_13_OF_48, per |-> ZERO]
    [] name = "BUCKETS_FILLED_17_OF_48" ->
         [pre |-> BUCKETS_FILLED_17_OF_48, per |-> ZERO]
    [] name = "BUCKETS_FILLED_18_OF_48" ->
         [pre |-> BUCKETS_FILLED_18_OF_48, per |-> ZERO]
    [] name = "BUCKETS_FILLED_32_OF_128" ->
         [pre |-> BUCKETS_FILLED_32_OF_128, per |-> ZERO]
    [] name = "BUCKETS_FILLED_33_OF_128" ->
         [pre |-> BUCKETS_FILLED_33_OF_128, per |-> ZERO]
    [] name = "BUCKETS_FILLED_64_OF_128" ->
         [pre |-> BUCKETS_FILLED_64_OF_128, per |-> ZERO]
    [] name = "BUCKETS_FILLED_65_OF_128" ->
         [pre |-> BUCKETS_FILLED_65_OF_128, per |-> ZERO]
    [] name = "BUCKETS_FILLED_64_OF_256" ->
         [pre |-> BUCKETS_FILLED_64_OF_256, per |-> ZERO]
    [] name = "BUCKETS_FILLED_65_OF_256" ->
         [pre |-> BUCKETS_FILLED_65_OF_256, per |-> ZERO]
    [] name = "BUCKETS_FILLED_128_OF_256" ->
         [pre |-> BUCKETS_FILLED_128_OF_256, per |-> ZERO]
    [] name = "BUCKETS_FILLED_129_OF_256" ->
         [pre |-> BUCKETS_FILLED_129_OF_256, per |-> ZERO]
    [] name = "STATISTICALLY_OKAY_WITH_LEN_9" ->
         [pre |-> STATISTICALLY_OKAY_WITH_LEN_9, per |-> ZERO]
    [] name = "STATISTICALLY_OKAY_WITH_LEN_49" ->
         [pre |-> STATISTICALLY_OKAY_WITH_LEN_49, per |-> ZERO]
    [] name = "A40E" -> [pre |-> <<>>, per |-> A40E]
    [] name = "ABCDEFGHIJKL" -> [pre |-> <<>>, per |-> ABCDEFGHIJKL]

(***************************************************************************)
(* The bounds of the model.                                                *)
(***************************************************************************)
\* the longest data whose bytes the update loop takes one by one
DirectMax == 300

\* the longest of the short chunks given to update()
MaxChunk == 5

\* the input lengths 0..MaxHead are all visited
MaxHead == 13

\* how far either side of a critical length the visited lengths go
Near == 2

(***************************************************************************)
(* generate.rs: the generator.                                             *)
(***************************************************************************)
WINDOW_SIZE == 5

TAIL_SIZE == WINDOW_SIZE - 1

\* Generator::MAX_LEN = u32::MAX - (TAIL_SIZE - 1)
MAX_LEN_whole_u32 == U32_MAX

MAX_LEN == WSub(U32_MAX, U(TAIL_SIZE - 1))

\* Generator::default() / Generator::new()
Generator_default(ty) ==
  [buckets |-> FuzzyHashBucketsData_new,
   len |-> WZero,
   checksum |-> FuzzyHashChecksumData_new(ty.SIZE_CKSUM),
   tail |-> <<0, 0, 0, 0>>,
   tail_len |-> 0]

\* Generator::default() of a build with the feature opt-low-memory-buckets
Generator_default_low_memory(ty) ==
  [Generator_default(ty) EXCEPT
     !.buckets = FuzzyHashBucketsData_new_low_memory(ty.SIZE_BUCKETS)]

\* Generator::processed_len(): self.len.checked_add(self.tail_len),
\* <<>> for None and <<n>> for Some(n)
processed_len_wrapping(g) == <<Wrap32(WAdd(g.len, U(g.tail_len)))>>

processed_len(g) ==
  LET sum == WAdd(g.len, U(g.tail_len)) IN
  IF WLe(sum, U32_MAX) THEN <<sum>> ELSE <<>>

\* F applied to the value of v: the statement computing v, then F
Then(v, F(_)) == [s \in {v} |-> F(s)][v]

\* One iteration of the loop of Generator::update(): the checksum and the
\* six bucket increments for the byte b4 after the window b = (b0,b1,b2,b3).
\* The six FuzzyHashBucketsData::increment(index) are applied in the order
\* written, each to the buckets the one before has left.
window_step_five(ty, st, b4) ==
  LET B == ty.SIZE_BUCKETS
      b0 == st.b[1]
      b1 == st.b[2]
      b2 == st.b[3]
      b3 == st.b[4]
  IN [checksum |-> checksum_update(ty, st.checksum, b4, b3),
      buckets |->
        Then(increment(B, st.buckets, b_mapping(B, 2, b4, b3, b2)), LAMBDA s1 :
        Then(increment(B, s1, b_mapping(B, 3, b4, b3, b1)), LAMBDA s2 :
        Then(increment(B, s2, b_mapping(B, 5, b4, b2, b1)), LAMBDA s3 :
        Then(increment(B, s3, b_mapping(B, 7, b4, b2, b0)), LAMBDA s4 :
        increment(B, s4, b_mapping(B, 11, b4, b3, b0)))))),
      b |-> <<b1, b2, b3, b4>>]

window_step(ty, st, b4) ==
  LET B == ty.SIZE_BUCKETS
      b0 == st.b[1]
      b1 == st.b[2]
      b2 == st.b[3]
      b3 == st.b[4]
  IN [checksum |-> checksum_update(ty, st.checksum, b4, b3),
      buckets |->
        Then(increment(B, st.buckets, b_mapping(B, 2, b4, b3, b2)), LAMBDA s1 :
        Then(increment(B, s1, b_mapping(B, 3, b4, b3, b1)), LAMBDA s2 :
        Then(increment(B, s2, b_mapping(B, 5, b4, b2, b1)), LAMBDA s3 :
        Then(increment(B, s3, b_mapping(B, 7, b4, b2, b0)), LAMBDA s4 :
        Then(increment(B, s4, b_mapping(B, 11, b4, b3, b0)), LAMBDA s5 :
        increment(B, s5, b_mapping(B, 13, b4, b1, b0))))))),
      b |-> <<b1, b2, b3, b4>>]

\* `for &b4 in data` over data[i..n], byte by byte: the iterations of the
\* first half of the range, then those of the second half
RECURSIVE loop_bytes(_, _, _, _, _)
loop_bytes(ty, st, d, i, n) ==
  CASE i >= n -> st
    [] n - i = 1 -> window_step(ty, st, at(d, i))
    [] OTHER -> Then(loop_bytes(ty, st, d, i, (i + n) \div 2),
                     LAMBDA s : loop_bytes(ty, s, d, (i + n) \div 2, n))

\* The checksum alone over data[i..n], data[i - 1] being b3 for i > 0
RECURSIVE loop_checksum(_, _, _, _, _, _)
loop_checksum(ty, cksum, b3, d, i, n) ==
  CASE i >= n -> cksum
    [] n - i = 1 -> checksum_update(ty, cksum, at(d, i),
                                    IF i = 0 THEN b3 ELSE at(d, i - 1))
    [] OTHER -> Then(loop_checksum(ty, cksum, b3, d, i, (i + n) \div 2),
                     LAMBDA c : loop_checksum(ty, c, b3, d, (i + n) \div 2, n))

\* f after g, both tuples on byte values + 1
compose(f, g) == Table([c \in 1..256 |-> f[g[c] + 1]])

\* T composed with itself d times, d < 16
power_digit(T, d) ==
  LET I == Table([c \in 1..256 |-> c - 1])
      T2 == compose(T, T)
      T4 == compose(T2, T2)
      T8 == compose(T4, T4)
  IN compose(compose(IF d % 2 = 1 THEN T ELSE I,
                     IF (d \div 2) % 2 = 1 THEN T2 ELSE I),
             compose(IF (d \div 4) % 2 = 1 THEN T4 ELSE I,
                     IF (d \div 8) % 2 = 1 THEN T8 ELSE I))

\* T composed with itself e times, from the hexadecimal digits of e
RECURSIVE power(_, _)
power(T, e) ==
  IF e = 0 THEN Table([c \in 1..256 |-> c - 1])
  ELSE Then(power(T, e \div 16), LAMBDA h :
         LET h2 == compose(h, h)
             h4 == compose(h2, h2)
             h8 == compose(h4, h4)
         IN compose(compose(h8, h8), power_digit(T, e % 16)))

\* T composed with itself m times, m wide: Limb times the high limb and
\* then the low limb
iterate(T, m) ==
  Then(power(T, Limb), LAMBDA TL :
  Then(power(TL, m[1]), LAMBDA hi : compose(hi, power(T, m[2]))))

\* `for &b4 in data` over the whole of data.  Data longer than DirectMax
\* lies, after its first bytes, inside the periodic part of its input,
\* where every period adds the same amounts to the buckets and maps the
\* 1-byte checksum through the same function: the loop is then run for
\* the first bytes, for m whole periods at once, and for the rest.
loop(ty, st, d) ==
  IF IsSmall(d.n) /\ WSmall(d.n) <= DirectMax
  THEN loop_bytes(ty, st, d, 0, WSmall(d.n))
  ELSE
    LET prelen == Len(d.s.pre)
        P == Len(d.s.per)
        head == IF WLt(d.from, U(prelen))
                THEN prelen - WSmall(d.from) + TAIL_SIZE ELSE TAIL_SIZE
        d1 == skip(d, U(head))
        m == WDivSmall(d1.n, P)
        r == WModSmall(d1.n, P)
    IN Then(loop_bytes(ty, st, d, 0, head), LAMBDA st1 :
       Then(loop_bytes(ty, [st1 EXCEPT !.buckets =
                              SubSeq([i \in 1..Len(@) |-> WZero], 1, Len(@))],
                       d1, 0, P).buckets, LAMBDA V :
       Then(Table([c \in 1..256 |->
                     loop_checksum(ty, <<c - 1>>, st1.b[4], d1, 0, P)[1]]),
            LAMBDA T :
       Then(iterate(T, m), LAMBDA Tm :
       Then([checksum |-> <<Tm[st1.checksum[1] + 1]>>,
             buckets |-> SubSeq([i \in 1..Len(V) |->
                Wrap32(WAdd(st1.buckets[i], Wrap32(WMul(m, WSmall(V[i])))))],
                                1, Len(V)),
             b |-> st1.b],
            LAMBDA st2 : loop_bytes(ty, st2, skip(d1, WMul(m, P)), 0, r))))))

\* The tail after the loop of Generator::update() over `rest`: its last
\* four bytes, or the old tail shifted left with all of `rest` appended
update_tail_unshifted(tail, rest) ==
  LET n == WSmall(rest.n) IN
  IF WLe(U(TAIL_SIZE), rest.n)
  THEN [j \in 1..TAIL_SIZE |->
          at(skip(rest, WSub(rest.n, U(TAIL_SIZE))), j - 1)]
  ELSE [j \in 1..TAIL_SIZE |->
          IF j <= TAIL_SIZE - n THEN tail[j]
          ELSE at(rest, j - (TAIL_SIZE - n) - 1)]

update_tail(tail, rest) ==
  LET n == WSmall(rest.n) IN
  IF WLe(U(TAIL_SIZE), rest.n)
  THEN [j \in 1..TAIL_SIZE |->
          at(skip(rest, WSub(rest.n, U(TAIL_SIZE))), j - 1)]
  ELSE [j \in 1..TAIL_SIZE |->
          IF j <= TAIL_SIZE - n THEN tail[j + n]
          ELSE at(rest, j - (TAIL_SIZE - n) - 1)]

\* Generator::update(data)
generator_update(ty, self, data) ==
  LET tail_len == self.tail_len
      remaining == TAIL_SIZE - tail_len
      fits == tail_len < TAIL_SIZE /\ WLe(data.n, U(remaining))
      copied == IF tail_len >= TAIL_SIZE THEN 0
                ELSE IF fits THEN WSmall(data.n) ELSE remaining
      g1 == [self EXCEPT
               !.tail = [j \in 1..TAIL_SIZE |->
                           IF j > tail_len /\ j <= tail_len + copied
                           THEN at(data, j - tail_len - 1) ELSE @[j]],
               !.tail_len = @ + copied]
      data1 == skip(data, U(copied))
      data_len0 == WMin(data1.n, U32_MAX)
      over == WLt(WSub(MAX_LEN, g1.len), data_len0)
      data_len == IF over THEN WSub(MAX_LEN, g1.len) ELSE data_len0
      rest == IF over THEN take(data1, data_len) ELSE data1
      st == loop(ty, [checksum |-> g1.checksum, buckets |-> g1.buckets,
                      b |-> g1.tail], rest)
  IN IF fits THEN g1
     ELSE IF WLe(MAX_LEN, g1.len) THEN g1
     ELSE [g1 EXCEPT
             !.len = Wrap32(WAdd(@, data_len)),
             !.checksum = st.checksum,
             !.buckets = st.buckets,
             !.tail = update_tail(@, rest)]

(***************************************************************************)
(* Arithmetic of the Q ratio computation: u64 division and the f32         *)
(* (IEEE 754 binary32, round to nearest even) conversions and division.    *)
(* An f32 holding a non-negative integer below 2^33 is the wide number     *)
(* of its value.                                                           *)
(***************************************************************************)
\* a / b and a % b for wide a and wide b > 0, as <<quotient, remainder>>:
\* long division, one hexadecimal digit of the quotient at a time
RECURSIVE WDivMod(_, _)
WDivMod(a, b) ==
  IF WLt(a, b) THEN <<WZero, a>>
  ELSE Then(WDivMod(a, WMul(b, 16)), LAMBDA h :
         LET d == CHOOSE x \in 0..15 :
                    WLe(WMul(b, x), h[2]) /\ WLt(h[2], WMul(b, x + 1))
         IN <<WAdd(WMul(h[1], 16), U(d)), WSub(h[2], WMul(b, d))>>)

\* 2^k as a wide number, k < 47
WPow2(k) == IF k < 16 THEN <<0, 2^k>> ELSE <<2^(k - 16), 0>>

\* the position of the highest set bit of a > 0
ilog2(a) == CHOOSE k \in 0..45 : WLe(WPow2(k), a) /\ WLt(a, WPow2(k + 1))

\* 2^k for 0 <= k <= 30
Pow2(k) == 2^k

F32_MANTISSA_DIGITS == 24

\* num / den (den > 0) rounded to the nearest multiple of unit, ties to the
\* multiple that is an even number of units
round_ties_even(num, den, unit) ==
  LET dm == WDivMod(num, WMul(den, unit))
      t == dm[1]
      twice == WDbl(dm[2])
      half == WMul(den, unit)
      up == WLt(half, twice) \/ (twice = half /\ t[2] % 2 = 1)
  IN WMul(IF up THEN WAdd(t, WOne) ELSE t, unit)

\* `x as f32` for x: u32
u32_as_f32(x) ==
  IF x = WZero THEN WZero
  ELSE LET e == ilog2(x) IN
       IF e < F32_MANTISSA_DIGITS THEN x
       ELSE round_ties_even(x, WOne, Pow2(e - (F32_MANTISSA_DIGITS - 1)))

\* `(x / y) as u32` for f32 x and y holding integers, y > 0: the quotient is
\* rounded to 24 significant bits, then truncated (saturating at u32::MAX).
\* With N the integer part and e the exponent of the quotient, a quotient
\* that has fraction bits left (e < 23) becomes N + 1 exactly when it lies
\* within half a unit in the last place, 2^(e - 24), of N + 1.
f32_div_as_u32(x, y) ==
  LET dm == WDivMod(x, y)
      N == dm[1]
      rem == dm[2]
      e == IF N = WZero THEN -1 ELSE ilog2(N)
  IN IF rem = WZero THEN WMin(u32_as_f32(N), U32_MAX)
     ELSE IF e < F32_MANTISSA_DIGITS - 1
     THEN IF WLe(WSub(y, rem),
                 WDivMod(y, U(Pow2(F32_MANTISSA_DIGITS - e)))[1])
          THEN WAdd(N, WOne) ELSE N
     ELSE WMin(round_ties_even(x, y, Pow2(e - (F32_MANTISSA_DIGITS - 1))),
               U32_MAX)

(***************************************************************************)
(* generate.rs: the generator options.                                     *)
(***************************************************************************)
PURE_INTEGER_QRATIO_COMPUTATION == "PURE_INTEGER_QRATIO_COMPUTATION"

ALLOW_SMALL_SIZE_FILES == "ALLOW_SMALL_SIZE_FILES"

ALLOW_STATISTICALLY_WEAK_BUCKETS_HALF == "ALLOW_STATISTICALLY_WEAK_BUCKETS_HALF"

ALLOW_STATISTICALLY_WEAK_BUCKETS_QUARTER ==
  "ALLOW_STATISTICALLY_WEAK_BUCKETS_QUARTER"

\* DataLengthProcessingMode::default()
DataLengthProcessingMode_default == "Optimistic"

\* bitflags set(flag, value)
flags_set(flags, flag, value) ==
  IF value THEN flags \cup {flag} ELSE flags \ {flag}

\* GeneratorOptions::new()
GeneratorOptions_new ==
  [length_mode |-> DataLengthProcessingMode_default,
   compat_flags |-> {},
   incompat_flags |-> {}]

\* GeneratorOptions::length_processing_mode(value)
length_processing_mode(self, value) == [self EXCEPT !.length_mode = value]

\* GeneratorOptions::pure_integer_qratio_computation(value)
pure_integer_qratio_computation(self, value) ==
  [self EXCEPT !.compat_flags =
     flags_set(@, PURE_INTEGER_QRATIO_COMPUTATION, value)]

\* GeneratorOptions::allow_small_size_files(value)
allow_small_size_files(self, value) ==
  [self EXCEPT !.incompat_flags = flags_set(@, ALLOW_SMALL_SIZE_FILES, value)]

\* GeneratorOptions::allow_statistically_weak_buckets_half(value)
allow_statistically_weak_buckets_half(self, value) ==
  [self EXCEPT !.incompat_flags =
     flags_set(@, ALLOW_STATISTICALLY_WEAK_BUCKETS_HALF, value)]

\* GeneratorOptions::allow_statistically_weak_buckets_quarter(value)
allow_statistically_weak_buckets_quarter_as_half(self, value) ==
  [self EXCEPT !.incompat_flags =
     flags_set(@, ALLOW_STATISTICALLY_WEAK_BUCKETS_HALF, value)]

allow_statistically_weak_buckets_quarter(self, value) ==
  [self EXCEPT !.incompat_flags =
     flags_set(@, ALLOW_STATISTICALLY_WEAK_BUCKETS_QUARTER, value)]

\* GeneratorOptions::is_tlsh_compatible()
is_tlsh_compatible(self) == self.incompat_flags = {}

\* GeneratorOptions::default()
GeneratorOptions_default == GeneratorOptions_new

(***************************************************************************)
(* errors.rs, hash/qratios.rs, generate/bucket_aggregation.rs, hash.rs:    *)
(* what finalization returns.                                              *)
(***************************************************************************)
TooLargeInput == "TooLargeInput"

TooSmallInput == "TooSmallInput"

BucketsAreHalfEmpty == "BucketsAreHalfEmpty"

BucketsAreThreeQuarterEmpty == "BucketsAreThreeQuarterEmpty"

\* Result<FuzzyHash, GeneratorError>: err is "" and hash is <<h>> for Ok(h)
Ok(h) == [err |-> "", hash |-> <<h>>]

Err(e) == [err |-> e, hash |-> <<>>]

\* the call did not return: Option::unwrap() on None panicked
Panicked == [err |-> "panicked", hash |-> <<>>]

\* GeneratorError::category()
category(e) ==
  CASE e \in {TooLargeInput, TooSmallInput} -> "DataLength"
    [] e \in {BucketsAreHalfEmpty, BucketsAreThreeQuarterEmpty} ->
         "DataDistribution"

\* FuzzyHashQRatios::new(q1ratio, q2ratio): the Q1 ratio in the low and the
\* Q2 ratio in the high four bits of one byte
FuzzyHashQRatios_new(q1ratio, q2ratio) == q2ratio * 16 + q1ratio

\* naive::get_quartile(x, q1, q2, q3)
get_quartile_inclusive(x, q1, q2, q3) ==
  IF WLe(q3, x) THEN 3 ELSE IF WLe(q2, x) THEN 2 ELSE IF WLe(q1, x) THEN 1
  ELSE 0

get_quartile(x, q1, q2, q3) ==
  IF WLt(q3, x) THEN 3 ELSE IF WLt(q2, x) THEN 2 ELSE IF WLt(q1, x) THEN 1
  ELSE 0

\* naive::aggregate_buckets(out, buckets, q1, q2, q3): the body, whose last
\* byte holds the first four buckets, the first of them in the low bits
aggregate_buckets(buckets, q1, q2, q3) ==
  LET SIZE_BODY == Len(buckets) \div 4
      quad(j) == get_quartile(buckets[4 * j + 4], q1, q2, q3) * 64
                 + get_quartile(buckets[4 * j + 3], q1, q2, q3) * 16
                 + get_quartile(buckets[4 * j + 2], q1, q2, q3) * 4
                 + get_quartile(buckets[4 * j + 1], q1, q2, q3)
  IN [i \in 1..SIZE_BODY |-> quad(SIZE_BODY - i)]

\* FuzzyHashBody::quartile(index) on the bytes of a body:
\* (data[data.len() - 1 - index / 4] >> (2 * (index % 4))) & 0b11
quartile(data, index) ==
  (data[(Len(data) - 1 - index \div 4) + 1] \div 2^(2 * (index % 4))) % 4

\* FuzzyHash::from_raw(body, checksum, lvalue, qratios)
from_raw(body, checksum, lvalue, qratios) ==
  [body |-> body, checksum |-> checksum, lvalue |-> lvalue,
   qratios |-> qratios]

\* slice::select_nth_unstable(index) (0-based): the element that sorting
\* would put at `index`, the elements before it (none greater) and those
\* after it (none smaller).  The order inside the two parts is unspecified;
\* only what they contain decides a later selection inside them.
select_nth_unstable_one_based(v, index) ==
  LET nth == CHOOSE x \in {v[i] : i \in 1..Len(v)} :
               /\ Cardinality({i \in 1..Len(v) : WLt(v[i], x)}) <= index + 1
               /\ index + 1 < Cardinality({i \in 1..Len(v) : WLe(v[i], x)})
      less == SelectSeq(v, LAMBDA y : WLt(y, nth))
      greater == SelectSeq(v, LAMBDA y : WLt(nth, y))
  IN [left |-> less \o [i \in 1..(index - Len(less)) |-> nth],
      nth |-> nth,
      right |-> [i \in 1..(Len(v) - 1 - index - Len(greater)) |-> nth]
                \o greater]

select_nth_unstable(v, index) ==
  LET nth == CHOOSE x \in {v[i] : i \in 1..Len(v)} :
               /\ Cardinality({i \in 1..Len(v) : WLt(v[i], x)}) <= index
               /\ index < Cardinality({i \in 1..Len(v) : WLe(v[i], x)})
      less == SelectSeq(v, LAMBDA y : WLt(y, nth))
      greater == SelectSeq(v, LAMBDA y : WLt(nth, y))
  IN [left |-> less \o [i \in 1..(index - Len(less)) |-> nth],
      nth |-> nth,
      right |-> [i \in 1..(Len(v) - 1 - index - Len(greater)) |-> nth]
                \o greater]

\* the Q ratio of quartile q against q3, computed on integers (u64)
qratio_integer(q, q3) == WModSmall(WDivMod(WMul(q, 100), q3)[1], 16)

\* the Q ratio of quartile q against q3, computed on f32 after a wrapping
\* u32 multiplication
qratio_f32(q, q3) ==
  WModSmall(f32_div_as_u32(u32_as_f32(Wrap32(WMul(q, 100))), u32_as_f32(q3)),
            16)

\* Generator::finalize_with_options(options)
finalize_with_options(ty, self, options) ==
  LET B == ty.SIZE_BUCKETS
      plen == processed_len(self)
      len == IF plen = <<>> THEN U32_MAX ELSE plen[1]
      validity == DataLengthValidity_new(B, len)
      lvalue == FuzzyHashLengthEncoding_new(len)
      buckets == buckets_data(B, self.buckets)
      nonzero_count == Cardinality({i \in 1..B : buckets[i] # WZero})
      s2 == select_nth_unstable(buckets, B \div 2 - 1)
      s1 == select_nth_unstable(s2.left, B \div 4 - 1)
      s3 == select_nth_unstable(s2.right, B \div 4 - 1)
      dummy == s3.nth = WZero
      q1 == IF dummy THEN WOne ELSE s1.nth
      q2 == IF dummy THEN WOne ELSE s2.nth
      q3 == IF dummy THEN WOne ELSE s3.nth
      pure == PURE_INTEGER_QRATIO_COMPUTATION \in options.compat_flags
      q1ratio == IF pure THEN qratio_integer(q1, q3) ELSE qratio_f32(q1, q3)
      q2ratio == IF pure THEN qratio_integer(q2, q3) ELSE qratio_f32(q2, q3)
  IN IF is_err_on(validity, options.length_mode) /\ validity = "TooLarge"
     THEN Err(TooLargeInput)
     ELSE IF /\ is_err_on(validity, options.length_mode)
             /\ ALLOW_SMALL_SIZE_FILES \notin options.incompat_flags
     THEN Err(TooSmallInput)
     ELSE IF lvalue = <<>> THEN Panicked
     ELSE IF /\ s3.nth = WZero
             /\ ALLOW_STATISTICALLY_WEAK_BUCKETS_QUARTER
                  \notin options.incompat_flags
     THEN Err(BucketsAreThreeQuarterEmpty)
     ELSE IF /\ nonzero_count < MIN_NONZERO_BUCKETS(B)
             /\ options.incompat_flags
                  \cap {ALLOW_STATISTICALLY_WEAK_BUCKETS_HALF,
                        ALLOW_STATISTICALLY_WEAK_BUCKETS_QUARTER} = {}
     THEN Err(BucketsAreHalfEmpty)
     ELSE Ok(from_raw(aggregate_buckets(buckets, q1, q2, q3), self.checksum,
                      lvalue[1], FuzzyHashQRatios_new(q1ratio, q2ratio)))

\* GeneratorType::finalize()
finalize(ty, self) == finalize_with_options(ty, self, GeneratorOptions_default)

(***************************************************************************)
(* internals/parse/hex_str.rs: hexadecimal digits to bytes and back (the   *)
(* default features: the full tables).  A string is a sequence of bytes,   *)
(* an Option is <<>> for None and <<v>> for Some(v).                       *)
(***************************************************************************)
HEX_UPPER_NIBBLE_TABLE ==
  <<48, 49, 50, 51, 52, 53, 54, 55, 56, 57, 65, 66, 67, 68, 69, 70>>

HEX_INVALID == 256

\* entry c + 1 is the value of the character c as a low digit: '0'-'9',
\* 'A'-'F' and 'a'-'f' are digits, every other character is HEX_INVALID
HEX_REV_TABLE_LO ==
  Table([i \in 1..256 |->
    LET c == i - 1 IN
    CASE c >= 48 /\ c <= 57 -> c - 48
      [] c >= 65 /\ c <= 70 -> c - 65 + 10
      [] c >= 97 /\ c <= 102 -> c - 97 + 10
      [] OTHER -> HEX_INVALID])

\* decode_1(src): `hi | lo` of the entries of HEX_REV_TABLE_HI (the entry
\* of HEX_REV_TABLE_LO shifted left by 4 unless it is HEX_INVALID) and of
\* HEX_REV_TABLE_LO; the bits of the two below HEX_INVALID never overlap
\* and the bit HEX_INVALID is set when it is in either.  None when
\* `value & HEX_INVALID != 0`.
decode_1(src) ==
  IF Len(src) # 2 THEN <<>>
  ELSE LET HEX_REV_TABLE_HI(c) ==
             LET x == HEX_REV_TABLE_LO[c + 1] IN
             IF x = HEX_INVALID THEN x ELSE x * 16
           hi == HEX_REV_TABLE_HI(src[1])
           lo == HEX_REV_TABLE_LO[src[2] + 1]
           value == (hi % HEX_INVALID) + (lo % HEX_INVALID)
                    + (IF hi >= HEX_INVALID \/ lo >= HEX_INVALID
                       THEN HEX_INVALID ELSE 0)
       IN IF (value \div HEX_INVALID) % 2 # 0 THEN <<>> ELSE <<value % 256>>

\* decode_array::<N>(dst, src): <<>> for false, <<dst>> for true
decode_array(N, src) ==
  IF Len(src) # N * 2 THEN <<>>
  ELSE LET v == [i \in 1..N |-> decode_1(SubSeq(src, 2 * i - 1, 2 * i))] IN
       IF \E i \in 1..N : v[i] = <<>> THEN <<>>
       ELSE <<[i \in 1..N |-> v[i][1]]>>

\* decode_rev_1(src): the low digit comes first
decode_rev_1(src) ==
  IF Len(src) # 2 THEN <<>>
  ELSE LET lo == HEX_REV_TABLE_LO[src[1] + 1]
           HEX_REV_TABLE_HI(c) ==
             LET x == HEX_REV_TABLE_LO[c + 1] IN
             IF x = HEX_INVALID THEN x ELSE x * 16
           hi == HEX_REV_TABLE_HI(src[2])
           value == (lo % HEX_INVALID) + (hi % HEX_INVALID)
                    + (IF hi >= HEX_INVALID \/ lo >= HEX_INVALID
                       THEN HEX_INVALID ELSE 0)
       IN IF (value \div HEX_INVALID) % 2 # 0 THEN <<>> ELSE <<value % 256>>

decode_rev_array(N, src) ==
  IF Len(src) # N * 2 THEN <<>>
  ELSE LET v == [i \in 1..N |-> decode_rev_1(SubSeq(src, 2 * i - 1, 2 * i))] IN
       IF \E i \in 1..N : v[i] = <<>> THEN <<>>
       ELSE <<[i \in 1..N |-> v[i][1]]>>

\* encode_array(dst, src): the bytes written to dst, for every byte of
\* src its entry of HEX_UPPER_BYTE_TABLE (the high digit, the low digit)
encode_array(src) ==
  LET HEX_UPPER_BYTE_TABLE(i) == <<HEX_UPPER_NIBBLE_TABLE[(i \div 16) + 1],
                                   HEX_UPPER_NIBBLE_TABLE[(i % 16) + 1]>>
  IN [k \in 1..(2 * Len(src)) |->
        HEX_UPPER_BYTE_TABLE(src[(k + 1) \div 2])[2 - (k % 2)]]

\* encode_rev_1(dst, value): the two bytes written to dst, the entry of
\* HEX_UPPER_BYTE_REV_TABLE (HEX_UPPER_BYTE_TABLE with the two digits of
\* every entry swapped)
encode_rev_1_unswapped(value) ==
  <<HEX_UPPER_NIBBLE_TABLE[(value \div 16) + 1],
    HEX_UPPER_NIBBLE_TABLE[(value % 16) + 1]>>

encode_rev_1(value) ==
  LET HEX_UPPER_BYTE_TABLE(i) == <<HEX_UPPER_NIBBLE_TABLE[(i \div 16) + 1],
                                   HEX_UPPER_NIBBLE_TABLE[(i % 16) + 1]>>
      HEX_UPPER_BYTE_REV_TABLE(i) == <<HEX_UPPER_BYTE_TABLE(i)[2],
                                       HEX_UPPER_BYTE_TABLE(i)[1]>>
  IN HEX_UPPER_BYTE_REV_TABLE(value)

encode_rev_array(src) ==
  LET HEX_UPPER_BYTE_TABLE(i) == <<HEX_UPPER_NIBBLE_TABLE[(i \div 16) + 1],
                                   HEX_UPPER_NIBBLE_TABLE[(i % 16) + 1]>>
      HEX_UPPER_BYTE_REV_TABLE(i) == <<HEX_UPPER_BYTE_TABLE(i)[2],
                                       HEX_UPPER_BYTE_TABLE(i)[1]>>
  IN [k \in 1..(2 * Len(src)) |->
        HEX_UPPER_BYTE_REV_TABLE(src[(k + 1) \div 2])[2 - (k % 2)]]

(***************************************************************************)
(* hash.rs, hash/checksum.rs, hash/body.rs, internals/length.rs: the       *)
(* fuzzy hash, its parsers and its two stored forms.  A fuzzy hash is the  *)
(* record of from_raw; strict is the feature strict-parser of the build.   *)
(***************************************************************************)
\* FuzzyHashType::SIZE_IN_BYTES
SIZE_IN_BYTES(t) == t.SIZE_BUCKETS \div 4 + 2 + t.SIZE_CKSUM

\* FuzzyHashType::LEN_IN_STR
LEN_IN_STR(t) == (t.SIZE_BUCKETS \div 4 + 2 + t.SIZE_CKSUM) * 2 + 2

\* FuzzyHashQRatios::from_str_bytes(bytes): one byte, low digit first
FuzzyHashQRatios_from_str_bytes(bytes) ==
  IF Len(bytes) # 2 THEN Err("InvalidStringLength")
  ELSE LET v == decode_rev_1(bytes) IN
       IF v = <<>> THEN Err("InvalidCharacter") ELSE Ok(v[1])

\* FuzzyHashType::from_str_bytes(bytes, prefix): prefix is <<>> for None
\* and <<p>> for Some(p).  The from_str_bytes of the checksum, of the length
\* and of the body are their decode calls: the slices they are given
\* always have the length they expect.
from_str_bytes_by_prefix(t, strict, bytes, prefix) ==
  LET detected ==
        IF prefix # <<>> THEN prefix
        ELSE IF Len(bytes) >= 2 /\ SubSeq(bytes, 1, 2) = <<84, 49>>
             THEN <<"WithVersion">> ELSE <<"Empty">>
      C == t.SIZE_CKSUM
      SIZE_BODY == t.SIZE_BUCKETS \div 4
      LEN_IN_STR_EXCEPT_PREFIX == LEN_IN_STR(t) - 2
      \* FuzzyHashChecksumData::is_valid(): only the 1-byte checksum of
      \* the 48-bucket type has invalid values
      checksum_is_valid(c) ==
        IF C = CHECKSUM_SIZE_NORMAL /\ t.SIZE_BUCKETS = NUM_BUCKETS_SHORT
        THEN c[1] <= NUM_BUCKETS_SHORT ELSE TRUE
      \* FuzzyHashLengthEncoding::is_valid()
      lvalue_is_valid(l) == l < ENCODED_VALUE_SIZE
      rest == IF detected = <<"WithVersion">>
              THEN SubSeq(bytes, 3, Len(bytes)) ELSE bytes
      checksum == decode_rev_array(C, SubSeq(rest, 1, C * 2))
      lvalue == decode_rev_1(SubSeq(rest, C * 2 + 1, C * 2 + 2))
      qratios == FuzzyHashQRatios_from_str_bytes(
                   SubSeq(rest, C * 2 + 3, C * 2 + 4))
      body == decode_array(SIZE_BODY, SubSeq(rest, C * 2 + 5, Len(rest)))
  IN CASE detected = <<"Empty">> /\ Len(bytes) # LEN_IN_STR_EXCEPT_PREFIX ->
            Err("InvalidStringLength")
       [] detected = <<"WithVersion">> /\ Len(bytes) # LEN_IN_STR(t) ->
            Err("InvalidStringLength")
       [] detected = <<"WithVersion">> /\ SubSeq(bytes, 1, 2) # <<84, 49>> ->
            Err("InvalidPrefix")
       [] checksum = <<>> -> Err("InvalidCharacter")
       [] strict /\ ~checksum_is_valid(checksum[1]) -> Err("InvalidChecksum")
       [] lvalue = <<>> -> Err("InvalidCharacter")
       [] strict /\ ~lvalue_is_valid(lvalue[1]) -> Err("LengthIsTooLarge")
       [] qratios.err # "" -> qratios
       [] body = <<>> -> Err("InvalidCharacter")
       [] OTHER -> Ok([body |-> body[1], checksum |-> checksum[1],
                       lvalue |-> lvalue[1], qratios |-> qratios.hash[1]])

from_str_bytes(t, strict, bytes, prefix) ==
  LET detected ==
        IF prefix # <<>> THEN prefix
        ELSE IF Len(bytes) = LEN_IN_STR(t) - 2 THEN <<"Empty">>
        ELSE IF Len(bytes) = LEN_IN_STR(t) THEN <<"WithVersion">>
        ELSE <<>>
      C == t.SIZE_CKSUM
      SIZE_BODY == t.SIZE_BUCKETS \div 4
      LEN_IN_STR_EXCEPT_PREFIX == LEN_IN_STR(t) - 2
      \* FuzzyHashChecksumData::is_valid(): only the 1-byte checksum of
      \* the 48-bucket type has invalid values
      checksum_is_valid(c) ==
        IF C = CHECKSUM_SIZE_NORMAL /\ t.SIZE_BUCKETS = NUM_BUCKETS_SHORT
        THEN c[1] <= NUM_BUCKETS_SHORT ELSE TRUE
      \* FuzzyHashLengthEncoding::is_valid()
      lvalue_is_valid(l) == l < ENCODED_VALUE_SIZE
      rest == IF detected = <<"WithVersion">>
              THEN SubSeq(bytes, 3, Len(bytes)) ELSE bytes
      checksum == decode_rev_array(C, SubSeq(rest, 1, C * 2))
      lvalue == decode_rev_1(SubSeq(rest, C * 2 + 1, C * 2 + 2))
      qratios == FuzzyHashQRatios_from_str_bytes(
                   SubSeq(rest, C * 2 + 3, C * 2 + 4))
      body == decode_array(SIZE_BODY, SubSeq(rest, C * 2 + 5, Len(rest)))
  IN CASE detected = <<>> -> Err("InvalidStringLength")
       [] detected = <<"Empty">> /\ Len(bytes) # LEN_IN_STR_EXCEPT_PREFIX ->
            Err("InvalidStringLength")
       [] detected = <<"WithVersion">> /\ Len(bytes) # LEN_IN_STR(t) ->
            Err("InvalidStringLength")
       [] detected = <<"WithVersion">> /\ SubSeq(bytes, 1, 2) # <<84, 49>> ->
            Err("InvalidPrefix")
       [] checksum = <<>> -> Err("InvalidCharacter")
       [] strict /\ ~checksum_is_valid(checksum[1]) -> Err("InvalidChecksum")
       [] lvalue = <<>> -> Err("InvalidCharacter")
       [] strict /\ ~lvalue_is_valid(lvalue[1]) -> Err("LengthIsTooLarge")
       [] qratios.err # "" -> qratios
       [] body = <<>> -> Err("InvalidCharacter")
       [] OTHER -> Ok([body |-> body[1], checksum |-> checksum[1],
                       lvalue |-> lvalue[1], qratios |-> qratios.hash[1]])

\* TryFrom<&[u8]> and TryFrom<&[u8; SIZE_IN_BYTES]>: the binary form
try_from_unchecked(t, strict, value) ==
  IF Len(value) # SIZE_IN_BYTES(t) THEN Err("InvalidStringLength")
  ELSE Ok(from_raw(SubSeq(value, t.SIZE_CKSUM + 3, Len(value)),
                   SubSeq(value, 1, t.SIZE_CKSUM), value[t.SIZE_CKSUM + 1],
                   value[t.SIZE_CKSUM + 2]))

try_from(t, strict, value) ==
  LET C == t.SIZE_CKSUM
      \* FuzzyHashChecksumData::is_valid()
      checksum_is_valid(c) ==
        IF C = CHECKSUM_SIZE_NORMAL /\ t.SIZE_BUCKETS = NUM_BUCKETS_SHORT
        THEN c[1] <= NUM_BUCKETS_SHORT ELSE TRUE
      \* FuzzyHashLengthEncoding::is_valid()
      lvalue_is_valid(l) == l < ENCODED_VALUE_SIZE
      checksum == SubSeq(value, 1, C)
      lvalue == value[C + 1]
      qratios == value[C + 2]
  IN CASE Len(value) # SIZE_IN_BYTES(t) -> Err("InvalidStringLength")
       [] strict /\ ~checksum_is_valid(checksum) -> Err("InvalidChecksum")
       [] strict /\ ~lvalue_is_valid(lvalue) -> Err("LengthIsTooLarge")
       [] OTHER -> Ok(from_raw(SubSeq(value, C + 3, Len(value)), checksum,
                               lvalue, qratios))

\* FuzzyHashType::store_into_bytes(out): the return value and the buffer
store_into_bytes(t, self, out) ==
  IF Len(out) < SIZE_IN_BYTES(t)
  THEN [ret |-> Err("BufferIsTooSmall"), out |-> out]
  ELSE [ret |-> Ok(SIZE_IN_BYTES(t)),
        out |-> self.checksum \o <<self.lvalue>> \o <<self.qratios>>
                \o self.body \o SubSeq(out, SIZE_IN_BYTES(t) + 1, Len(out))]

\* FuzzyHashType::store_into_str_bytes(out, prefix)
store_into_str_bytes(t, self, out, prefix) ==
  LET len == IF prefix = "Empty" THEN LEN_IN_STR(t) - 2
             ELSE LEN_IN_STR(t)
  IN IF Len(out) < len
     THEN [ret |-> Err("BufferIsTooSmall"), out |-> out]
     ELSE [ret |-> Ok(len),
           out |-> (IF prefix = "WithVersion" THEN <<84, 49>> ELSE <<>>)
                   \o encode_rev_array(self.checksum)
                   \o encode_rev_1(self.lvalue)
                   \o encode_rev_1(self.qratios)
                   \o encode_array(self.body)
                   \o SubSeq(out, len + 1, Len(out))]

(***************************************************************************)
(* internals/compare/utils.rs, internals/compare/dist_length.rs,           *)
(* compare/dist_qratios.rs, internals/compare/dist_checksum.rs,            *)
(* compare/dist_body.rs: the distances between the parts of two hashes.    *)
(***************************************************************************)
\* distance_on_ring_mod(x, y, n) on u8: n = 0 stands for 256, every
\* operation wraps at 2^8
distance_on_ring_mod_left(x, y, n) ==
  IF x >= y THEN (x - y) % 256 ELSE (((x + n) % 256) - y) % 256

distance_on_ring_mod(x, y, n) ==
  LET dl == IF x >= y THEN (x - y) % 256 ELSE (((x + n) % 256) - y) % 256
      dr == IF x >= y THEN (((y + n) % 256) - x) % 256 ELSE (y - x) % 256
  IN IF dl <= dr THEN dl ELSE dr

\* length_mult!() and qratio_mult!()
length_mult == 12

qratio_mult == 12

\* dist_length::distance(lvalue1, lvalue2): by the table LDIST_VALUE of
\* opt-dist-length-table when table is TRUE (its entry for the difference
\* i is the distance of 0 and i), naive::distance without it
dist_length_distance_unscaled(table, lvalue1, lvalue2) ==
  distance_on_ring_mod(lvalue1, lvalue2, 0)

dist_length_distance(table, lvalue1, lvalue2) ==
  LET LDIST_VALUE(i) ==
        LET dist == distance_on_ring_mod(0, i, 0) IN
        IF dist <= 1 THEN dist ELSE dist * length_mult
  IN IF table THEN LDIST_VALUE((lvalue1 - lvalue2) % 256)
     ELSE LET dist == distance_on_ring_mod(lvalue1, lvalue2, 0) IN
          IF dist <= 1 THEN dist ELSE dist * length_mult

\* dist_qratios::distance(qratios1, qratios2): naive::distance, the sum
\* of naive::sub_distance over the two Q ratios of the byte
dist_qratios_distance_low_only(qratios1, qratios2) ==
  LET dist == distance_on_ring_mod(qratios1 % 16, qratios2 % 16, 16) IN
  IF dist <= 1 THEN dist ELSE (dist - 1) * qratio_mult

dist_qratios_distance(qratios1, qratios2) ==
  LET sub_distance(qratio_1, qratio_2) ==
        LET dist == distance_on_ring_mod(qratio_1, qratio_2, 16) IN
        IF dist <= 1 THEN dist ELSE (dist - 1) * qratio_mult
      q1ratio_1 == qratios1 % 16
      q2ratio_1 == qratios1 \div 16
      q1ratio_2 == qratios2 % 16
      q2ratio_2 == qratios2 \div 16
  IN sub_distance(q1ratio_1, q1ratio_2) + sub_distance(q2ratio_1, q2ratio_2)

\* dist_checksum::distance_1 and distance_3, by the size of the checksum
dist_checksum_distance_inverted(checksum1, checksum2) ==
  IF checksum1[1] = checksum2[1] THEN 1 ELSE 0

dist_checksum_distance(checksum1, checksum2) ==
  IF Len(checksum1) = 1
  THEN IF checksum1[1] # checksum2[1] THEN 1 ELSE 0
  ELSE (IF checksum1[1] # checksum2[1] THEN 1 ELSE 0)
       + (IF checksum1[2] # checksum2[2] THEN 1 ELSE 0)
       + (IF checksum1[3] # checksum2[3] THEN 1 ELSE 0)

\* pseudo_simd_64::sub_distance(x, y) and pseudo_simd_32::sub_distance(x, y):
\* the same statements on a u64 and on a u32.  A word is the sequence of
\* its bytes, lowest first (from_ne_bytes on a little-endian target), 8 of
\* them for u64 and 4 for u32; the local operators are the wrapping
\* operators of Wrapping<u64> and Wrapping<u32> on such sequences.
sub_distance(x, y) ==
  LET W == Len(x)
      word(f) == SubSeq(f, 1, W)
      mask(b) == word([k \in 1..W |-> b])
      \* a & b on bytes, from a + b = (a ^ b) + 2 * (a & b)
      and(p, q) == word([k \in 1..W |->
                      (p[k] + q[k] - Xor(p[k], q[k])) \div 2])
      xor(p, q) == word([k \in 1..W |-> Xor(p[k], q[k])])
      \* p << n and p >> n for n < 8
      shl(p, n) == word([k \in 1..W |->
                      ((p[k] * 2^n) % 256)
                      + (IF k = 1 THEN 0 ELSE p[k - 1] \div 2^(8 - n))])
      shr(p, n) == word([k \in 1..W |->
                      (p[k] \div 2^n)
                      + (IF k = W THEN 0 ELSE (p[k + 1] % 2^n) * 2^(8 - n))])
      \* p + q: c[k] is the carry out of the lowest k bytes
      add(p, q) ==
        LET c[k \in 0..W] ==
              IF k = 0 THEN 0 ELSE (p[k] + q[k] + c[k - 1]) \div 256
        IN word([k \in 1..W |-> (p[k] + q[k] + c[k - 1]) % 256])
      \* p - q: c[k] is the borrow out of the lowest k bytes
      sub(p, q) ==
        LET c[k \in 0..W] ==
              IF k = 0 THEN 0
              ELSE IF p[k] - q[k] - c[k - 1] < 0 THEN 1 ELSE 0
        IN word([k \in 1..W |-> (p[k] - q[k] - c[k - 1]) % 256])
      \* (p * 0x0101..01) >> (8 * (W - 1)): the highest byte of the
      \* product, whose byte k is the sum of the bytes 1..k of p and of
      \* the carry out of the byte below
      top_of_product(p) ==
        LET sum[k \in 0..W] == IF k = 0 THEN 0 ELSE p[k] + sum[k - 1]
            col[k \in 0..W] ==
              IF k = 0 THEN 0 ELSE sum[k] + (col[k - 1] \div 256)
        IN col[W] % 256
      mask_dibit_01 == mask(85)
      mask_dibit_10 == mask(170)
      mask_nibble_0011 == mask(51)
      mask_byte_00001111 == mask(15)
      z == xor(x, y)
      ta1 == and(y, mask_dibit_01)
      tb1 == and(x, mask_dibit_01)
      ta2 == add(shl(ta1, 1), ta1)
      tb2 == sub(mask_dibit_10, tb1)
      ta3 == xor(ta2, x)
      tb3 == xor(tb2, x)
      sa1 == and(ta3, z)
      tb4 == and(tb3, z)
      ta4 == shr(sa1, 2)
      sa2 == and(sa1, mask_nibble_0011)
      tb5 == shr(tb4, 1)
      ta5 == and(ta4, mask_nibble_0011)
      tb6 == add(shl(tb5, 1), tb5)
      sa3 == add(sa2, ta5)
      sb1 == and(tb6, z)
      tb7 == shr(sb1, 2)
      sb2 == and(sb1, mask_nibble_0011)
      tb8 == and(tb7, mask_nibble_0011)
      sb3 == add(sb2, tb8)
      s1 == add(sa3, sb3)
      t1 == shr(s1, 4)
      s2 == and(s1, mask_byte_00001111)
      t2 == and(t1, mask_byte_00001111)
      s3 == add(s2, t2)
  IN top_of_product(s3)

\* dist_body::BODY_OUTLIER_VALUE: what two dibits 0b00 and 0b11 add
BODY_OUTLIER_VALUE == 6

\* FuzzyHashBodyData::compare: distance_12, distance_32 and distance_64 of
\* pseudo_simd_64 (usize::BITS >= 64), by the size of the body: the sum of
\* sub_distance over the chunks of eight bytes of the two bodies, and over
\* the last four bytes of bodies of 12 bytes
RECURSIVE dist_body_distance(_, _)
dist_body_distance(body1, body2) ==
  LET size == IF Len(body1) >= 8 THEN 8 ELSE 4
  IN IF Len(body1) = 0 THEN 0
     ELSE sub_distance(SubSeq(body1, 1, size), SubSeq(body2, 1, size))
          + dist_body_distance(SubSeq(body1, size + 1, Len(body1)),
                               SubSeq(body2, size + 1, Len(body2)))

\* the sum of sub_distance over the chunks of four bytes but the last one
RECURSIVE pseudo_simd_32_distance_but_last(_, _)
pseudo_simd_32_distance_but_last(body1, body2) ==
  IF Len(body1) <= 4 THEN 0
  ELSE sub_distance(SubSeq(body1, 1, 4), SubSeq(body2, 1, 4))
       + pseudo_simd_32_distance_but_last(SubSeq(body1, 5, Len(body1)),
                                          SubSeq(body2, 5, Len(body2)))

\* pseudo_simd_32::distance_12, distance_32 and distance_64: the sum of
\* sub_distance over the chunks of four bytes of the two bodies
RECURSIVE pseudo_simd_32_distance(_, _)
pseudo_simd_32_distance(body1, body2) ==
  IF Len(body1) = 0 THEN 0
  ELSE sub_distance(SubSeq(body1, 1, 4), SubSeq(body2, 1, 4))
       + pseudo_simd_32_distance(SubSeq(body1, 5, Len(body1)),
                                 SubSeq(body2, 5, Len(body2)))

\* FuzzyHashType::max_distance(config): the sum of the MAX_DISTANCE of the
\* body (MAX_DISTANCE_SHORT, MAX_DISTANCE_NORMAL or MAX_DISTANCE_LONG), of
\* the checksum, of the Q ratios and, unless the configuration leaves it
\* out, of the length
max_distance_of_body(t, config) == (t.SIZE_BUCKETS \div 4) * 4 * BODY_OUTLIER_VALUE

max_distance(t, config) ==
  LET body_MAX_DISTANCE == (t.SIZE_BUCKETS \div 4) * 4 * BODY_OUTLIER_VALUE
      checksum_MAX_DISTANCE ==
        IF t.SIZE_CKSUM = CHECKSUM_SIZE_NORMAL THEN 1 ELSE 3
      qratios_MAX_DISTANCE == 2 * ((8 - 1) * qratio_mult)
      length_MAX_DISTANCE == 128 * length_mult
  IN body_MAX_DISTANCE + checksum_MAX_DISTANCE + qratios_MAX_DISTANCE
     + (IF config = "Default" THEN length_MAX_DISTANCE ELSE 0)

\* FuzzyHashType::compare_with_config(other, config); table is the
\* feature opt-dist-length-table of the build
compare_with_config_ignoring(table, self, other, config) ==
  dist_body_distance(self.body, other.body)
  + dist_checksum_distance(self.checksum, other.checksum)
  + dist_qratios_distance(self.qratios, other.qratios)
  + dist_length_distance(table, self.lvalue, other.lvalue)

compare_with_config(table, self, other, config) ==
  dist_body_distance(self.body, other.body)
  + dist_checksum_distance(self.checksum, other.checksum)
  + dist_qratios_distance(self.qratios, other.qratios)
  + (IF config = "Default"
     THEN dist_length_distance(table, self.lvalue, other.lvalue) ELSE 0)

(***************************************************************************)
(* internals/length.rs: the length encoding on the targets with a count    *)
(* of leading zeros, and the lengths an encoding stands for.               *)
(***************************************************************************)
\* ENCODED_INDICES_BY_LEADING_ZEROS: entry z + 1 is i + 1 for the last i
\* with TOP_VALUE_BY_ENCODING[i].leading_zeros() = z, 0 when there is none
ENCODED_INDICES_BY_LEADING_ZEROS ==
  LET leading_zeros(len) == IF len = WZero THEN 32 ELSE 31 - ilog2(len)
      lz == [i \in 1..ENCODED_VALUE_SIZE |->
               leading_zeros(TOP_VALUE_BY_ENCODING[i])]
  IN SubSeq([z \in 1..33 |->
       IF \E i \in 1..ENCODED_VALUE_SIZE : lz[i] = z - 1
       THEN CHOOSE i \in 1..ENCODED_VALUE_SIZE :
              /\ lz[i] = z - 1
              /\ \A j \in (i + 1)..ENCODED_VALUE_SIZE : lz[j] # z - 1
       ELSE 0], 1, 33)

\* FuzzyHashLengthEncoding::new(len) on x86, x86_64, arm, aarch64, riscv
\* with zbb and wasm: the search is narrowed by the leading zeros of len
FuzzyHashLengthEncoding_new_by_clz_bottom(len) ==
  IF len = WZero THEN <<0>>
  ELSE IF WLt(MAX, len) THEN <<>>
  ELSE <<ENCODED_INDICES_BY_LEADING_ZEROS[(31 - ilog2(len)) + 2]>>

FuzzyHashLengthEncoding_new_by_clz(len) ==
  IF len = WZero THEN <<0>>
  ELSE IF WLt(MAX, len) THEN <<>>
  ELSE LET leading_zeros(x) == IF x = WZero THEN 32 ELSE 31 - ilog2(x)
           clz == leading_zeros(len)
           bottom == ENCODED_INDICES_BY_LEADING_ZEROS[clz + 2]
           top == ENCODED_INDICES_BY_LEADING_ZEROS[clz + 1]
       IN <<binary_search(len, bottom, top)>>

\* FuzzyHashLengthEncoding::range(): <<>> for None, <<r>> for Some of the
\* inclusive range from r.start to r.end
range_from_top(lvalue) ==
  IF lvalue = 0 THEN <<[start |-> WZero, end |-> TOP_VALUE_BY_ENCODING[1]]>>
  ELSE IF lvalue >= ENCODED_VALUE_SIZE THEN <<>>
  ELSE <<[start |-> TOP_VALUE_BY_ENCODING[lvalue],
          end |-> TOP_VALUE_BY_ENCODING[lvalue + 1]]>>

range(lvalue) ==
  IF lvalue = 0 THEN <<[start |-> WZero, end |-> TOP_VALUE_BY_ENCODING[1]]>>
  ELSE IF lvalue >= ENCODED_VALUE_SIZE THEN <<>>
  ELSE <<[start |-> WAdd(TOP_VALUE_BY_ENCODING[lvalue], WOne),
          end |-> TOP_VALUE_BY_ENCODING[lvalue + 1]]>>

(***************************************************************************)
(* The state machine: one generator of one of the five types, fed one of   *)
(* the inputs in chunks and finalized with any options.                    *)
(***************************************************************************)
VARIABLES
  ty,       \* the type of the fuzzy hash: its checksum and bucket sizes
  input,    \* the name of the input the updates take their data from
  gen,      \* the generator
  pos,      \* the number of bytes given to update() so far (wide)
  result,   \* <<>>, or the options and the return value of the last
            \* finalize_with_options() while the caller holds them
  build,    \* the features and the target the crate is built for
  self,     \* <<>>, or the fuzzy hash a caller holds
  arg,      \* the arguments a caller has ready for its next call
  out,      \* <<>>, or the last call on a fuzzy hash or on one of its parts
            \* and what it returned
  cells,    \* the statics DISPATCH_*: the state of each OnceLock
  threads   \* the threads calling the dispatching functions: where each is

vars == <<ty, input, gen, pos, result, build, self, arg, out, cells, threads>>

\* the types and the inputs given to them
Cases ==
  ({Short} \X {"HELLO_WORLD", "BUCKETS_FILLED_12_OF_48",
               "BUCKETS_FILLED_13_OF_48", "BUCKETS_FILLED_17_OF_48",
               "BUCKETS_FILLED_18_OF_48", "STATISTICALLY_OKAY_WITH_LEN_9",
               "ABCDEFGHIJKL"})
  \cup ({Normal} \X {"BUCKETS_FILLED_32_OF_128", "BUCKETS_FILLED_33_OF_128",
                     "BUCKETS_FILLED_64_OF_128", "BUCKETS_FILLED_65_OF_128",
                     "STATISTICALLY_OKAY_WITH_LEN_49", "A40E"})
  \cup ({NormalWithLongChecksum} \X {"BUCKETS_FILLED_64_OF_128",
                                     "BUCKETS_FILLED_65_OF_128"})
  \cup ({Long} \X {"BUCKETS_FILLED_64_OF_256", "BUCKETS_FILLED_65_OF_256",
                   "BUCKETS_FILLED_128_OF_256", "BUCKETS_FILLED_129_OF_256",
                   "A40E"})
  \cup ({LongWithLongChecksum} \X {"BUCKETS_FILLED_128_OF_256",
                                   "BUCKETS_FILLED_129_OF_256"})

\* every value of GeneratorOptions, built as a caller builds it
AllOptions ==
  {allow_statistically_weak_buckets_quarter(
     allow_statistically_weak_buckets_half(
       allow_small_size_files(
         pure_integer_qratio_computation(
           length_processing_mode(GeneratorOptions_new, m), p), s), h), q) :
   m \in {"Optimistic", "Conservative"}, p \in BOOLEAN, s \in BOOLEAN,
   h \in BOOLEAN, q \in BOOLEAN}

\* The input lengths the model visits: the first MaxHead bytes and up to
\* Near bytes either side of the lengths where the behaviour changes (the
\* two minimum lengths, the length where len is 2^31 and a counter that
\* is incremented twice a byte comes back to 0, the greatest encodable
\* length, and the lengths from MAX_LEN to 2^32 where the generator
\* saturates).  Data long enough
\* to reach the last two comes from the periodic inputs, which go to
\* 1-byte checksums.
Windows(t, name) ==
  {[lo |-> WZero, hi |-> U(MaxHead)],
   [lo |-> U(MIN(t.SIZE_BUCKETS) - Near), hi |-> U(MIN(t.SIZE_BUCKETS) + Near)],
   [lo |-> U(MIN_CONSERVATIVE(t.SIZE_BUCKETS) - Near),
    hi |-> U(MIN_CONSERVATIVE(t.SIZE_BUCKETS) + Near)]}
  \cup (IF Input(name).pre = <<>> /\ t.SIZE_CKSUM = CHECKSUM_SIZE_NORMAL
        THEN {[lo |-> WSub(WAdd(WPow2(31), U(TAIL_SIZE)), U(Near)),
               hi |-> WAdd(WAdd(WPow2(31), U(TAIL_SIZE)), U(Near))],
              [lo |-> WSub(MAX, U(Near)), hi |-> WAdd(MAX, U(Near))],
              [lo |-> WSub(MAX_LEN, U(Near)), hi |-> WAdd(TwoPow32, U(Near))]}
        ELSE {})

Visited(t, name, p) ==
  \E w \in Windows(t, name) : WLe(w.lo, p) /\ WLe(p, w.hi)

\* the lengths of the data of an update at p: a few bytes, or, at the
\* start of the input or at the end of a window, all the bytes up to the
\* start of a later window or to the end of the last one
Lengths(t, name, p) ==
  {U(k) : k \in 0..MaxChunk}
  \cup (IF WLe(p, U(MaxChunk)) \/ \E w \in Windows(t, name) : p = w.hi
        THEN {WSub(q, p) :
                q \in {x \in {w.lo : w \in Windows(t, name)}
                               \cup {WAdd(TwoPow32, U(Near))} :
                         WLt(p, x) /\ Visited(t, name, x)}}
        ELSE {})

Init ==
  /\ \E c \in Cases : ty = c[1] /\ input = c[2] /\ gen = Generator_default(c[1])
  /\ pos = WZero
  /\ result = <<>>
  /\ build = [strict_parser |-> FALSE, dist_length_table |-> FALSE,
              clz |-> FALSE]
  /\ self = <<>>
  /\ arg = [text |-> <<>>]
  /\ out = <<>>
  /\ cells = <<>> /\ threads = <<>>

\* the state after construction in a build with the feature
\* opt-low-memory-buckets
InitLowMemory ==
  /\ \E c \in Cases :
       ty = c[1] /\ input = c[2] /\ gen = Generator_default_low_memory(c[1])
  /\ pos = WZero
  /\ result = <<>>
  /\ build = [strict_parser |-> FALSE, dist_length_table |-> FALSE,
              clz |-> FALSE]
  /\ self = <<>>
  /\ arg = [text |-> <<>>]
  /\ out = <<>>
  /\ cells = <<>> /\ threads = <<>>

\* generator.update(data), data being the next n bytes of the input
Update ==
  /\ result = <<>>
  /\ \E n \in Lengths(ty, input, pos) :
       /\ Visited(ty, input, WAdd(pos, n))
       /\ gen' = generator_update(ty, gen, slice(Input(input), pos, n))
       /\ pos' = WAdd(pos, n)
  /\ UNCHANGED <<ty, input, result, build, self, arg, out, cells, threads>>

\* generator.finalize_with_options(&options): &self, so the generator is
\* not written; the caller receives the return value
Finalize_resetting ==
  /\ result = <<>>
  /\ \E o \in AllOptions :
       result' = <<[options |-> o, ret |-> finalize_with_options(ty, gen, o)]>>
  /\ gen' = Generator_default(ty)
  /\ UNCHANGED <<ty, input, pos, build, self, arg, out, cells, threads>>

Finalize ==
  /\ result = <<>>
  /\ \E o \in AllOptions :
       result' = <<[options |-> o, ret |-> finalize_with_options(ty, gen, o)]>>
  /\ UNCHANGED <<ty, input, gen, pos, build, self, arg, out, cells, threads>>

\* the same call again, with the options of the call before
FinalizeAgain ==
  /\ result # <<>>
  /\ result' = <<[options |-> result[1].options,
                  ret |-> finalize_with_options(ty, gen, result[1].options)]>>
  /\ UNCHANGED <<ty, input, gen, pos, build, self, arg, out, cells, threads>>

\* the caller drops the return value
Drop ==
  /\ result # <<>>
  /\ result' = <<>>
  /\ UNCHANGED <<ty, input, gen, pos, build, self, arg, out, cells, threads>>

Next == Update \/ Finalize \/ FinalizeAgain \/ Drop

Spec == Init /\ [][Next]_vars

SpecLowMemory == InitLowMemory /\ [][Next]_vars

(***************************************************************************)
(* The second state machine: a caller of the functions of a fuzzy hash and *)
(* of its parts.  The caller holds a fuzzy hash (the one a generator has   *)
(* returned, or one with arbitrary fields) and the arguments of its next   *)
(* call; every action is one call, recorded in `out` with what it          *)
(* returned.  The generator, where there was one, has been dropped: gen    *)
(* is <<>>, and `result` keeps what finalize_with_options returned.        *)
(***************************************************************************)
\* the number of patterns, less one, the arbitrary fields are made from
Seeds == 2

\* the lengths given to the length encoding: the first ones, and up to
\* Near either side of every top value and of every power of two
LengthsOf ==
  {U(n) : n \in 0..MaxHead}
  \cup {WAdd(v, U(d)) : v \in {TOP_VALUE_BY_ENCODING[i] : i \in 1..ENCODED_VALUE_SIZE}
                            \cup {WPow2(e) : e \in 0..31},
                        d \in 0..Near}
  \cup {WSub(v, U(d)) : v \in {TOP_VALUE_BY_ENCODING[i] : i \in 4..ENCODED_VALUE_SIZE}
                            \cup {WPow2(e) : e \in 3..31} \cup {U32_MAX},
                        d \in 0..Near}

\* The caller holds the fuzzy hash a generator returned for an input of
\* the tests and a text to parse or a buffer to store into; or a fuzzy
\* hash with arbitrary fields and another one to compare it with, or a
\* buffer; or no fuzzy hash and two bytes, a length or a length code.
\* FuzzyHash_of(t, k, h) is a fuzzy hash of type t as from_raw builds it,
\* with the body of pattern k and the checksum, the length and the Q
\* ratios of pattern h: pattern 0 is all zeros, the body 1 is all ones,
\* the header 1 is the farthest from the header 0 (length 128, Q ratios 8
\* and 8), the header 2 has a length that is_valid() refuses (213), and
\* the checksums of the headers 1 and 2 are above what the 48-bucket type
\* computes; next to it come the fuzzy hashes with a checksum and a
\* length around the largest ones is_valid() accepts, and fuzzy hashes
\* with more patterns of the body, each with a body to compare its own
\* with.  TextsOf(t, h) are the texts given to the parsers with the
\* fuzzy hash h: buffers of zeros of the lengths of the stored forms and
\* of none, the text of h in lower case, and the text of h with a wrong
\* prefix, with "T1" in the place of its first two digits, with a
\* character that is no digit in each of its parts, and with a character
\* less or more.
InitHash ==
  LET FuzzyHash_of(t, k, h) ==
        from_raw([i \in 1..(t.SIZE_BUCKETS \div 4) |->
                    CASE k = 0 -> 0
                      [] k = 1 -> 255
                      [] OTHER -> (27 * k + (2 * k + 1) * i) % 256],
                 [j \in 1..t.SIZE_CKSUM |-> (h * (199 + j)) % 256],
                 (h * 128 + (h \div 2) * 213) % 256,
                 (h * 136 + (h \div 2) * 23) % 256)
      TextsOf(t, h) ==
        LET L == LEN_IN_STR(t)
            C == t.SIZE_CKSUM
            hex == store_into_str_bytes(t, h, [i \in 1..L |-> 0],
                                        "WithVersion").out
            bare == SubSeq(hex, 3, L)
            lower(x) == [i \in 1..Len(x) |->
                           IF x[i] >= 65 /\ x[i] <= 70 THEN x[i] + 32
                           ELSE x[i]]
            places == {3, 2 * C + 3, 2 * C + 4, 2 * C + 5, 2 * C + 7, L}
        IN {[i \in 1..n |-> 0] : n \in {0, SIZE_IN_BYTES(t), L - 2, L}}
           \cup {lower(hex), lower(bare), [hex EXCEPT ![2] = 50],
                 <<84, 49>> \o SubSeq(bare, 3, L - 2),
                 SubSeq(hex, 1, L - 1), hex \o <<48>>,
                 SubSeq(bare, 1, L - 3), <<84, 78, 85, 76, 76>>}
           \cup {[hex EXCEPT ![p] = 64] : p \in places}
           \cup {[bare EXCEPT ![p - 2] = 64] : p \in places}
  IN
  /\ out = <<>>
  /\ cells = <<>> /\ threads = <<>>
  /\ \/ \E c \in Cases, o \in AllOptions :
          \E n \in {MaxHead, Len(Input(c[2]).pre),
                    MIN_CONSERVATIVE(c[1].SIZE_BUCKETS) + Near} :
            LET g == generator_update(c[1], Generator_default(c[1]),
                                      slice(Input(c[2]), WZero, U(n)))
                r == finalize_with_options(c[1], g, o)
            IN /\ o.length_mode = "Optimistic"
               /\ o.compat_flags = {}
               /\ o.incompat_flags \in {{}, {ALLOW_SMALL_SIZE_FILES,
                                             ALLOW_STATISTICALLY_WEAK_BUCKETS_HALF,
                                             ALLOW_STATISTICALLY_WEAK_BUCKETS_QUARTER}}
               /\ r.err = ""
               /\ ty = c[1] /\ input = c[2] /\ gen = <<>> /\ pos = U(n)
               /\ result = <<[options |-> o, ret |-> r]>>
               /\ self = r.hash
               /\ build \in {[strict_parser |-> s, dist_length_table |-> FALSE,
                              clz |-> FALSE] : s \in BOOLEAN}
               /\ arg \in {[text |-> x] : x \in TextsOf(c[1], r.hash[1])}
     \/ /\ ty \in {Short, Normal, NormalWithLongChecksum, Long,
                   LongWithLongChecksum}
        /\ input = "" /\ gen = <<>> /\ pos = WZero
        /\ result = <<>>
        /\ \/ \E k \in 0..Seeds, h \in 0..Seeds :
                /\ self = <<FuzzyHash_of(ty, k, h)>>
                /\ \/ /\ arg \in {[other |-> FuzzyHash_of(ty, k2, h2)] :
                                    k2 \in 0..Seeds, h2 \in 0..Seeds}
                      /\ build \in {[strict_parser |-> FALSE,
                                     dist_length_table |-> b, clz |-> FALSE] :
                                    b \in BOOLEAN}
                   \/ /\ arg \in {[text |-> [i \in 1..n |-> 0]] :
                                    n \in {SIZE_IN_BYTES(ty), LEN_IN_STR(ty)}}
                      /\ build \in {[strict_parser |-> s,
                                     dist_length_table |-> FALSE,
                                     clz |-> FALSE] : s \in BOOLEAN}
           \/ /\ self \in {<<FuzzyHash_of(ty, k, 0)>> : k \in 0..(2 * Seeds + 1)}
              /\ arg \in {[body |-> FuzzyHash_of(ty, k, 0).body] :
                            k \in 0..(2 * Seeds + 1)}
              /\ build = [strict_parser |-> FALSE, dist_length_table |-> FALSE,
                          clz |-> FALSE]
           \/ /\ self \in {<<from_raw(FuzzyHash_of(ty, Seeds, Seeds).body,
                                       [j \in 1..ty.SIZE_CKSUM |-> c], l,
                                       FuzzyHash_of(ty, Seeds, Seeds).qratios)>> :
                              c \in (NUM_BUCKETS_SHORT - Near)
                                     ..(NUM_BUCKETS_SHORT + Near),
                              l \in (ENCODED_VALUE_SIZE - Near)
                                     ..(ENCODED_VALUE_SIZE + Near - 1)}
              /\ arg \in {[text |-> [i \in 1..n |-> 0]] :
                            n \in {SIZE_IN_BYTES(ty), LEN_IN_STR(ty)}}
              /\ build \in {[strict_parser |-> s, dist_length_table |-> FALSE,
                             clz |-> FALSE] : s \in BOOLEAN}
     \/ /\ ty = Normal /\ input = "" /\ gen = <<>>
        /\ pos = WZero /\ result = <<>> /\ self = <<>>
        /\ \/ /\ arg \in {[a |-> a, b |-> b] : a \in 0..255, b \in 0..255}
              /\ build \in {[strict_parser |-> FALSE, dist_length_table |-> b,
                             clz |-> FALSE] : b \in BOOLEAN}
           \/ /\ arg \in {[len |-> n] : n \in LengthsOf}
                         \cup {[lvalue |-> k] : k \in 0..255}
              /\ build \in {[strict_parser |-> FALSE,
                             dist_length_table |-> FALSE, clz |-> b] :
                            b \in BOOLEAN}

\* hash.store_into_str_bytes(&mut buffer, prefix), the caller keeping
\* &buffer[..size] of a buffer that was large enough
StoreStr ==
  /\ self # <<>>
  /\ "text" \in DOMAIN arg
  /\ \E prefix \in {"Empty", "WithVersion"} :
       LET r == store_into_str_bytes(ty, self[1], arg.text, prefix) IN
       /\ out' = <<[fn |-> "store_into_str_bytes", prefix |-> prefix,
                    ret |-> r.ret]>>
       /\ arg' = [text |-> IF r.ret.err = ""
                           THEN SubSeq(r.out, 1, r.ret.hash[1]) ELSE r.out]
  /\ UNCHANGED <<ty, input, gen, pos, result, build, self, cells, threads>>

\* hash.store_into_bytes(&mut buffer), the caller keeping &buffer[..size]
StoreBytes ==
  /\ self # <<>>
  /\ "text" \in DOMAIN arg
  /\ LET r == store_into_bytes(ty, self[1], arg.text) IN
     /\ out' = <<[fn |-> "store_into_bytes", ret |-> r.ret]>>
     /\ arg' = [text |-> IF r.ret.err = ""
                         THEN SubSeq(r.out, 1, r.ret.hash[1]) ELSE r.out]
  /\ UNCHANGED <<ty, input, gen, pos, result, build, self, cells, threads>>

\* FuzzyHashType::from_str_bytes(text, prefix)
ParseStr ==
  /\ "text" \in DOMAIN arg
  /\ \E prefix \in {<<>>, <<"Empty">>, <<"WithVersion">>} :
       out' = <<[fn |-> "from_str_bytes", prefix |-> prefix,
                 ret |-> from_str_bytes(ty, build.strict_parser, arg.text,
                                        prefix)]>>
  /\ UNCHANGED <<ty, input, gen, pos, result, build, self, arg, cells, threads>>

\* FuzzyHashType::try_from(bytes)
ParseBytes ==
  /\ "text" \in DOMAIN arg
  /\ out' = <<[fn |-> "try_from",
               ret |-> try_from(ty, build.strict_parser, arg.text)]>>
  /\ UNCHANGED <<ty, input, gen, pos, result, build, self, arg, cells, threads>>

\* hash.compare_with_config(&other, config)
Compare ==
  /\ self # <<>>
  /\ "other" \in DOMAIN arg
  /\ \E config \in {"Default", "NoDistance"} :
       out' = <<[fn |-> "compare_with_config", config |-> config,
                 ret |-> compare_with_config(build.dist_length_table, self[1],
                                             arg.other, config)]>>
  /\ UNCHANGED <<ty, input, gen, pos, result, build, self, arg, cells, threads>>

\* dist_body::distance_12, distance_32 or distance_64 (by the size of the
\* bodies) of the body of the fuzzy hash and another body, on
\* a target with usize::BITS = bits: pseudo_simd_64 if bits >= 64, and
\* pseudo_simd_32 otherwise
BodyDistance ==
  /\ self # <<>>
  /\ "body" \in DOMAIN arg
  /\ \E bits \in {32, 64} :
       out' = <<[fn |-> "dist_body::distance", bits |-> bits,
                 ret |-> IF bits >= 64
                         THEN dist_body_distance(self[1].body, arg.body)
                         ELSE pseudo_simd_32_distance(self[1].body,
                                                      arg.body)]>>
  /\ UNCHANGED <<ty, input, gen, pos, result, build, self, arg, cells, threads>>

\* dist_length::distance(a, b)
LengthDistance ==
  /\ "a" \in DOMAIN arg
  /\ out' = <<[fn |-> "dist_length::distance",
               ret |-> dist_length_distance(build.dist_length_table,
                                            arg.a, arg.b)]>>
  /\ UNCHANGED <<ty, input, gen, pos, result, build, self, arg, cells, threads>>

\* dist_qratios::distance(a, b)
QRatiosDistance ==
  /\ "a" \in DOMAIN arg
  /\ out' = <<[fn |-> "dist_qratios::distance",
               ret |-> dist_qratios_distance(arg.a, arg.b)]>>
  /\ UNCHANGED <<ty, input, gen, pos, result, build, self, arg, cells, threads>>

\* FuzzyHashLengthEncoding::new(len), as the target of the build has it
Encode ==
  /\ "len" \in DOMAIN arg
  /\ out' = <<[fn |-> "FuzzyHashLengthEncoding::new",
               ret |-> IF build.clz
                       THEN FuzzyHashLengthEncoding_new_by_clz(arg.len)
                       ELSE FuzzyHashLengthEncoding_new(arg.len)]>>
  /\ UNCHANGED <<ty, input, gen, pos, result, build, self, arg, cells, threads>>

\* FuzzyHashLengthEncoding::from_raw(lvalue).range()
Range ==
  /\ "lvalue" \in DOMAIN arg
  /\ out' = <<[fn |-> "range", ret |-> range(arg.lvalue)]>>
  /\ UNCHANGED <<ty, input, gen, pos, result, build, self, arg, cells, threads>>

NextHash ==
  StoreStr \/ StoreBytes \/ ParseStr \/ ParseBytes \/ Compare
  \/ BodyDistance
  \/ LengthDistance \/ QRatiosDistance \/ Encode \/ Range

SpecHash == InitHash /\ [][NextHash]_vars

(***************************************************************************)
(* The third state machine: threads calling the dispatching functions of a *)
(* build with simd-per-arch, detect-features and the two opt-simd features *)
(* on x86.  Each of distance_32, distance_64, aggregate_48, aggregate_128  *)
(* and aggregate_256 keeps the function it has chosen for the processor in *)
(* a static OnceLock.  OnceLock::get_or_init(f) reads the cell; if it is   *)
(* not initialized it goes through the Once of the cell, where one thread  *)
(* takes the state from Incomplete to Running, calls f, stores the value   *)
(* and leaves Complete, and the others wait until it has.                  *)
(***************************************************************************)
\* the number of threads
Callers == 2

\* the five statics
Cells ==
  {"DISPATCH_DISTANCE_32", "DISPATCH_DISTANCE_64", "DISPATCH_AGGREGATE_48",
   "DISPATCH_AGGREGATE_128", "DISPATCH_AGGREGATE_256"}

\* the closure given to get_or_init: the function for the features the
\* processor is detected to have
dispatch_init(cell, cpu, usize_bits) ==
  IF cell \in {"DISPATCH_DISTANCE_32", "DISPATCH_DISTANCE_64"}
  THEN IF "avx2" \in cpu THEN "x86_avx2"
       ELSE IF "sse4.1" \in cpu THEN "x86_sse4_1"
       ELSE IF "sse2" \in cpu THEN "x86_sse2"
       ELSE IF usize_bits >= 64 THEN "pseudo_simd_64" ELSE "pseudo_simd_32"
  ELSE IF "avx2" \in cpu THEN "x86_avx2"
       ELSE IF "ssse3" \in cpu THEN "x86_ssse3"
       ELSE IF "sse2" \in cpu THEN "x86_sse2"
       ELSE "naive"

\* static DISPATCH_*: OnceLock<..> = OnceLock::new(), no thread calling
\* yet, on a processor with some of the features; `stores` is the number
\* of times a value has been stored in the cell, counted up to 2
InitDispatch ==
  /\ ty = Normal /\ input = "" /\ gen = <<>> /\ pos = WZero
  /\ result = <<>> /\ self = <<>> /\ arg = [text |-> <<>>] /\ out = <<>>
  /\ build \in {[cpu |-> f, usize_bits |-> w] :
                  f \in {{}, {"sse2"}, {"sse2", "ssse3"},
                         {"sse2", "ssse3", "sse4.1"},
                         {"sse2", "ssse3", "sse4.1", "avx2"}},
                  w \in {32, 64}}
  /\ cells = [c \in Cells |-> [once |-> "Incomplete", value |-> <<>>,
                               stores |-> 0]]
  /\ threads = [t \in 1..Callers |-> [pc |-> "idle", cell |-> "", fn |-> ""]]

\* thread t calls one of the five functions: get_or_init reads the cell
\* and, if it is initialized, has its value; if not, it goes to the Once
CallDispatching(t) ==
  /\ threads[t].pc = "idle"
  /\ \E c \in Cells :
       threads' = [threads EXCEPT ![t] =
                     IF cells[c].once = "Complete"
                     THEN [pc |-> "got", cell |-> c, fn |-> cells[c].value[1]]
                     ELSE [pc |-> "initialize", cell |-> c, fn |-> ""]]
  /\ UNCHANGED <<ty, input, gen, pos, result, build, self, arg, out, cells>>

\* Once::call_once_force as any thread might do it that finds no value
OnceBegin_unlocked(t) ==
  LET c == threads[t].cell IN
  /\ threads[t].pc = "initialize"
  /\ IF cells[c].value = <<>>
     THEN /\ cells' = [cells EXCEPT ![c].once = "Running"]
          /\ threads' = [threads EXCEPT ![t].pc = "closure"]
     ELSE /\ threads' = [threads EXCEPT ![t].pc = "got",
                                        ![t].fn = cells[c].value[1]]
          /\ UNCHANGED cells
  /\ UNCHANGED <<ty, input, gen, pos, result, build, self, arg, out>>

\* Once::call_once_force in thread t: the thread that finds Incomplete
\* makes it Running and is the one to call the closure; a thread that
\* finds Running waits; a thread that finds Complete has the value
OnceBegin(t) ==
  LET c == threads[t].cell IN
  /\ threads[t].pc = "initialize"
  /\ cells[c].once # "Running"
  /\ IF cells[c].once = "Incomplete"
     THEN /\ cells' = [cells EXCEPT ![c].once = "Running"]
          /\ threads' = [threads EXCEPT ![t].pc = "closure"]
     ELSE /\ threads' = [threads EXCEPT ![t].pc = "got",
                                        ![t].fn = cells[c].value[1]]
          /\ UNCHANGED cells
  /\ UNCHANGED <<ty, input, gen, pos, result, build, self, arg, out>>

\* the closure returns in thread t: its value is stored in the cell, the
\* Once is Complete, and get_or_init returns the value of the cell
OnceComplete(t) ==
  LET c == threads[t].cell
      f == dispatch_init(c, build.cpu, build.usize_bits)
  IN
  /\ threads[t].pc = "closure"
  /\ cells' = [cells EXCEPT ![c] =
                 [once |-> "Complete", value |-> <<f>>,
                  stores |-> IF @.stores < 2 THEN @.stores + 1 ELSE 2]]
  /\ threads' = [threads EXCEPT ![t].pc = "got", ![t].fn = f]
  /\ UNCHANGED <<ty, input, gen, pos, result, build, self, arg, out>>

\* thread t calls the function get_or_init has returned, and the
\* dispatching function returns
InvokeDispatched(t) ==
  /\ threads[t].pc = "got"
  /\ threads' = [threads EXCEPT ![t] = [pc |-> "idle", cell |-> "", fn |-> ""]]
  /\ UNCHANGED <<ty, input, gen, pos, result, build, self, arg, out, cells>>

NextDispatch ==
  \E t \in 1..Callers :
    CallDispatching(t) \/ OnceBegin(t) \/ OnceComplete(t)
    \/ InvokeDispatched(t)

SpecDispatch == InitDispatch /\ [][NextDispatch]_vars

(***************************************************************************)
(* The properties.                                                         *)
(***************************************************************************)
\* the generator after one update() of a fresh generator with all the
\* bytes given so far
SingleUpdate ==
  generator_update(ty, Generator_default(ty), slice(Input(input), WZero, pos))

\* the return value of the finalize_with_options() the caller holds
Returned == result[1].ret

\* the options of that call
Options == result[1].options

\* the greatest length a fuzzy hash encodes, 4,224,281,216
LengthTop169 == Dec(4224, 281216)

\* the minimum length of a mode for B buckets
MinLength(mode, B) ==
  IF mode = "Conservative" THEN (IF B = 48 THEN 10 ELSE 128)
  ELSE (IF B = 48 THEN 10 ELSE 50)

\* the least number of non-zero counters for B buckets
MinNonZero(B) == IF B = 48 THEN 18 ELSE IF B = 128 THEN 65 ELSE 129

\* the number of non-zero counters among the effective buckets
NonZero ==
  Cardinality({i \in 1..ty.SIZE_BUCKETS : gen.buckets[i] # WZero})

\* the length of the input passes the validation of options o
LengthAccepted(o) ==
  /\ WLe(pos, LengthTop169)
  /\ \/ ALLOW_SMALL_SIZE_FILES \in o.incompat_flags
     \/ WLe(U(MinLength(o.length_mode, ty.SIZE_BUCKETS)), pos)

DistributionErrors == {BucketsAreHalfEmpty, BucketsAreThreeQuarterEmpty}

\* C1: however the input was split into update() calls (empty chunks,
\* single bytes, long chunks), the generator is in the state (buckets,
\* checksum, tail, tail_len, len) that one update() of a fresh generator
\* with the whole input leaves; finalize reads nothing but that state and
\* its options, so the results are the same too.
C1_UpdateAssociative == result = <<>> => gen = SingleUpdate

\* bytes given in several chunks, past the filling of the tail
C1_Witness ==
  /\ result = <<>>
  /\ pos = U(MaxHead)
  /\ gen.len = U(MaxHead - TAIL_SIZE)
  /\ gen = SingleUpdate

\* the options that refuse nothing but a length above the maximum
Permissive ==
  allow_statistically_weak_buckets_quarter(
    allow_statistically_weak_buckets_half(
      allow_small_size_files(GeneratorOptions_default, TRUE), TRUE), TRUE)

\* C2: a finalize leaves the generator as it was; a second finalize with
\* the same options and no update in between returns what the first
\* returned; and whatever finalizations came before, a finalize returns
\* what it returns on a fresh generator given the whole input at once
\* (compared for the default options and for the most permissive ones).
C2_FinalizeReadsOnly ==
  /\ [][result' # <<>> => /\ gen' = gen
                          /\ result # <<>> => result' = result]_vars
  /\ [](result # <<>> /\ Options \in {GeneratorOptions_default, Permissive}
          => Returned = finalize_with_options(ty, SingleUpdate, Options))

\* a digest returned for an input longer than the head
C2_Witness ==
  /\ result # <<>>
  /\ Options = GeneratorOptions_default
  /\ Returned.hash # <<>>
  /\ WLt(U(MaxHead), pos)
  /\ Returned = finalize(ty, gen)

\* C3: after n bytes in all, processed_len() is n if n < 2^32 and none
\* otherwise.
C3_ProcessedLen ==
  processed_len(gen) = IF WLt(pos, TwoPow32) THEN <<pos>> ELSE <<>>

\* exactly 2^32 bytes given: the first length that is not representable
C3_Witness == pos = TwoPow32 /\ processed_len(gen) = <<>>

\* C4: once len + 4 >= 2^32, processed_len() is none and every step
\* leaves the generator as it is, so that it stays so.
C4_SaturationClamp ==
  /\ [](WLe(TwoPow32, WAdd(gen.len, U(TAIL_SIZE)))
          => processed_len(gen) = <<>>)
  /\ [][WLe(TwoPow32, WAdd(gen.len, U(TAIL_SIZE)))
          => gen' = gen /\ processed_len(gen') = <<>>]_vars

\* bytes were given to a saturated generator
C4_Witness ==
  /\ result = <<>>
  /\ pos = WAdd(TwoPow32, U(Near))
  /\ gen.len = MAX_LEN
  /\ processed_len(gen) = <<>>

\* C5: for a length not above the maximum, finalize returns TooSmallInput
\* exactly when ALLOW_SMALL_SIZE_FILES is not set and the length is below
\* the minimum of the mode (10/50/50 optimistic, 10/128/128 conservative).
C5_TooSmallExactly ==
  result # <<>> /\ WLe(pos, LengthTop169)
    => (Returned.err = TooSmallInput
          <=> /\ ALLOW_SMALL_SIZE_FILES \notin Options.incompat_flags
              /\ WLt(pos, U(MinLength(Options.length_mode, ty.SIZE_BUCKETS))))

\* a length between the two minimums, refused in conservative mode
C5_Witness ==
  /\ result # <<>>
  /\ ty.SIZE_BUCKETS = 128
  /\ Options.length_mode = "Conservative"
  /\ pos = U(127)
  /\ Returned.err = TooSmallInput

\* C6: whatever the mode and the flags, finalize returns TooLargeInput for
\* every length above 4,224,281,216, the saturated generator included.
C6_TooLargeAlways ==
  result # <<>> /\ WLt(LengthTop169, pos) => Returned.err = TooLargeInput

\* a saturated generator finalized with every flag set
C6_Witness ==
  /\ result # <<>>
  /\ WLe(TwoPow32, pos)
  /\ processed_len(gen) = <<>>
  /\ Options.incompat_flags = {ALLOW_SMALL_SIZE_FILES,
                               ALLOW_STATISTICALLY_WEAK_BUCKETS_HALF,
                               ALLOW_STATISTICALLY_WEAK_BUCKETS_QUARTER}
  /\ Returned.err = TooLargeInput

\* C7: with an accepted length and neither weak-bucket flag, finalize
\* returns a digest if at least 18/65/129 of the 48/128/256 counters are
\* non-zero and a data-distribution error otherwise.
C7_MinNonZero ==
  /\ result # <<>>
  /\ LengthAccepted(Options)
  /\ Options.incompat_flags
       \cap {ALLOW_STATISTICALLY_WEAK_BUCKETS_HALF,
             ALLOW_STATISTICALLY_WEAK_BUCKETS_QUARTER} = {}
  => IF NonZero >= MinNonZero(ty.SIZE_BUCKETS)
     THEN Returned.err = "" /\ Returned.hash # <<>>
     ELSE Returned.err \in DistributionErrors /\ Returned.hash = <<>>

\* a digest at exactly the least number of non-zero counters
C7_Witness ==
  /\ result # <<>>
  /\ LengthAccepted(Options)
  /\ Options.incompat_flags = {}
  /\ NonZero = MinNonZero(ty.SIZE_BUCKETS)
  /\ Returned.hash # <<>>

\* C8: a data-distribution error of finalize with the default options is
\* BucketsAreThreeQuarterEmpty exactly when at most B/4 of the B counters
\* are non-zero, and BucketsAreHalfEmpty otherwise.
C8_WhichDistributionError ==
  /\ result # <<>>
  /\ Options = GeneratorOptions_default
  /\ Returned.err \in DistributionErrors
  => (Returned.err = BucketsAreThreeQuarterEmpty
        <=> 4 * NonZero <= ty.SIZE_BUCKETS)

\* one counter more than a quarter: half empty, not three quarters
C8_Witness ==
  /\ result # <<>>
  /\ Options = GeneratorOptions_default
  /\ 4 * (NonZero - 1) = ty.SIZE_BUCKETS
  /\ Returned.err = BucketsAreHalfEmpty

\* C9: with the quarter option true, and the half option either way, an
\* input of accepted length gets neither data-distribution error.
C9_QuarterImpliesHalf ==
  /\ result # <<>>
  /\ Options \in {allow_statistically_weak_buckets_quarter(o, TRUE) :
                    o \in AllOptions}
  /\ LengthAccepted(Options)
  => Returned.err \notin DistributionErrors

\* a digest with the quarter option alone, for counters that are more
\* than a quarter but less than half non-zero
C9_Witness ==
  /\ result # <<>>
  /\ Options = allow_statistically_weak_buckets_quarter(
                 GeneratorOptions_default, TRUE)
  /\ LengthAccepted(Options)
  /\ 4 * NonZero > ty.SIZE_BUCKETS
  /\ NonZero < MinNonZero(ty.SIZE_BUCKETS)
  /\ Returned.hash # <<>>

\* C10: finalize with freshly created options returns what it returns with
\* options on which pure_integer_qratio_computation(true) was called.
C10_PureIntegerByDefault ==
  result # <<>> /\ Options = GeneratorOptions_new
    => Returned = finalize_with_options(
                    ty, gen,
                    pure_integer_qratio_computation(GeneratorOptions_new, TRUE))

(***************************************************************************)
(* Properties of the fuzzy hash and of its parts, under SpecHash.          *)
(***************************************************************************)
\* the last call and what it returned
Call == out[1]

\* the fuzzy hash the caller holds is the one the generator returned
Produced == result # <<>> /\ result[1].ret.err = "" /\ self = result[1].ret.hash

\* the text the caller holds is what store_into_str_bytes wrote for its
\* fuzzy hash with the prefix p
IsTextOf(p) ==
  LET r == store_into_str_bytes(ty, self[1], arg.text, p) IN
  r.ret = Ok(Len(arg.text)) /\ arg.text = r.out

\* the bytes the caller holds are what store_into_bytes wrote for its
\* fuzzy hash
IsBytesOf ==
  LET r == store_into_bytes(ty, self[1], arg.text) IN
  r.ret = Ok(Len(arg.text)) /\ arg.text = r.out

\* C11: Round trip.  For a fuzzy hash the generator returned, parsing the
\* text stored for it, with or without the prefix T1 (the same prefix
\* expected, or the prefix detected), returns that fuzzy hash, and so does
\* try_from on the binary form stored for it; with and without
\* strict-parser.
C11_RoundTrip ==
  (Produced /\ out # <<>>) =>
    /\ \A p \in {"Empty", "WithVersion"} :
         (/\ Call.fn = "from_str_bytes"
          /\ Call.prefix \in {<<>>, <<p>>}
          /\ IsTextOf(p))
         => Call.ret = Ok(self[1])
    /\ (Call.fn = "try_from" /\ IsBytesOf) => Call.ret = Ok(self[1])

\* a text with the prefix that was stored from the fuzzy hash of the
\* generator has been parsed strictly, the prefix detected, and gave the
\* fuzzy hash back; its Q ratios are two different digits
C11_Witness ==
  /\ Produced
  /\ build.strict_parser
  /\ out # <<>>
  /\ Call.fn = "from_str_bytes" /\ Call.prefix = <<>>
  /\ IsTextOf("WithVersion")
  /\ Call.ret = Ok(self[1])
  /\ self[1].qratios \div 16 # self[1].qratios % 16

\* the last call is a comparison of two fuzzy hashes
Compared == out # <<>> /\ Call.fn = "compare_with_config"

\* C12: Distance symmetry.  Whatever the fields of two fuzzy hashes of one
\* type and whichever the configuration, comparing the first with the
\* second gives what comparing the second with the first gives.
C12_Symmetry ==
  Compared =>
    Call.ret = compare_with_config(build.dist_length_table, arg.other,
                                   self[1], Call.config)

\* two fuzzy hashes that differ in every part have been compared, lengths
\* included, and the distance is the same the other way round
C12_Witness ==
  /\ Compared
  /\ Call.config = "Default"
  /\ self[1].body # arg.other.body
  /\ self[1].checksum # arg.other.checksum
  /\ self[1].lvalue > arg.other.lvalue
  /\ self[1].qratios < arg.other.qratios
  /\ Call.ret > 0
  /\ Call.ret = compare_with_config(build.dist_length_table, arg.other,
                                    self[1], Call.config)

\* C13: Distance zero.  A fuzzy hash of any type compared with itself is
\* at the distance 0, under either configuration, also when its checksum
\* or its length is one that a strict parser refuses.
C13_Zero ==
  (Compared /\ arg.other = self[1]) => Call.ret = 0

\* a fuzzy hash with a length that is not valid has been compared with
\* itself and is at the distance 0
C13_Witness ==
  /\ Compared
  /\ arg.other = self[1]
  /\ self[1].lvalue >= ENCODED_VALUE_SIZE
  /\ self[1].body # [i \in 1..Len(self[1].body) |-> 0]
  /\ Call.ret = 0

\* C14: The distance under the default configuration is the sum of the
\* distances of the bodies, of the checksums, of the Q ratios and of the
\* lengths; under the configuration without the length it is the sum of
\* the first three; the two differ by the distance of the two lengths.
C14_Sum ==
  Compared =>
    LET a == self[1]
        b == arg.other
        parts == dist_body_distance(a.body, b.body)
                 + dist_checksum_distance(a.checksum, b.checksum)
                 + dist_qratios_distance(a.qratios, b.qratios)
        length == dist_length_distance(build.dist_length_table,
                                       a.lvalue, b.lvalue)
    IN /\ Call.config = "Default" => Call.ret = parts + length
       /\ Call.config = "NoDistance" => Call.ret = parts
       /\ compare_with_config(build.dist_length_table, a, b, "Default")
          - compare_with_config(build.dist_length_table, a, b, "NoDistance")
          = length

\* two fuzzy hashes whose lengths and whose other parts differ have been
\* compared without the length, and the distance is that of the other
\* parts
C14_Witness ==
  /\ Compared
  /\ Call.config = "NoDistance"
  /\ dist_length_distance(build.dist_length_table, self[1].lvalue,
                          arg.other.lvalue) > 1
  /\ Call.ret > 0
  /\ Call.ret + dist_length_distance(build.dist_length_table, self[1].lvalue,
                                     arg.other.lvalue)
     = compare_with_config(build.dist_length_table, self[1], arg.other,
                           "Default")

\* C15: The distance of two fuzzy hashes of one type is at most
\* max_distance of the configuration: without the length 6 * B + C + 168
\* for B buckets and C bytes of checksum (457, 937, 939, 1705 and 1707 for
\* the five types), and 1536 more with it (2473 for the type Normal).
C15_MaxDistance ==
  Compared =>
    /\ Call.ret <= max_distance(ty, Call.config)
    /\ max_distance(ty, "NoDistance")
       = 6 * ty.SIZE_BUCKETS + ty.SIZE_CKSUM + 168
    /\ max_distance(ty, "NoDistance")
       = CASE ty = Short -> 457
           [] ty = Normal -> 937
           [] ty = NormalWithLongChecksum -> 939
           [] ty = Long -> 1705
           [] ty = LongWithLongChecksum -> 1707
    /\ max_distance(ty, "Default") = max_distance(ty, "NoDistance") + 1536
    /\ max_distance(Normal, "Default") = 2473

\* two fuzzy hashes of the type Normal are at the distance 2473, the
\* largest there is with the length
C15_Witness ==
  /\ Compared
  /\ ty = Normal
  /\ Call.config = "Default"
  /\ Call.ret = max_distance(ty, Call.config)
  /\ Call.ret = 2473

\* C16: The distance of two length codes a and b, each in 0..255, is d
\* when d <= 1 and 12 * d otherwise, for d the smaller of |a - b| and
\* 256 - |a - b|; it is never above 128 * 12 = 1536.
C16_LengthDistance ==
  (out # <<>> /\ Call.fn = "dist_length::distance") =>
    LET abs == IF arg.a >= arg.b THEN arg.a - arg.b ELSE arg.b - arg.a
        d == IF abs <= 256 - abs THEN abs ELSE 256 - abs
    IN /\ Call.ret = IF d <= 1 THEN d ELSE 12 * d
       /\ Call.ret <= 1536

\* the codes 0 and 128 are at the distance 1536, by the table as well
C16_Witness ==
  /\ out # <<>>
  /\ Call.fn = "dist_length::distance"
  /\ build.dist_length_table
  /\ arg.a = 0 /\ arg.b = 128
  /\ Call.ret = 1536

\* C17: The distance of two bytes of Q ratios is the sum, over the low
\* and the high four bits of the two, of d when d <= 1 and of
\* (d - 1) * 12 otherwise, for d the smaller of |x - y| and 16 - |x - y|;
\* neither term is above 7 * 12 = 84.
C17_QRatiosDistance ==
  (out # <<>> /\ Call.fn = "dist_qratios::distance") =>
    LET term(x, y) ==
          LET abs == IF x >= y THEN x - y ELSE y - x
              d == IF abs <= 16 - abs THEN abs ELSE 16 - abs
          IN IF d <= 1 THEN d ELSE (d - 1) * 12
    IN /\ Call.ret = term(arg.a % 16, arg.b % 16)
                     + term(arg.a \div 16, arg.b \div 16)
       /\ term(arg.a % 16, arg.b % 16) <= 84
       /\ term(arg.a \div 16, arg.b \div 16) <= 84

\* the Q ratios 0 and 8 in the high four bits, next to equal ones in the
\* low four bits, are at the distance 84
C17_Witness ==
  /\ out # <<>>
  /\ Call.fn = "dist_qratios::distance"
  /\ arg.a = 5 /\ arg.b = 133
  /\ Call.ret = 84

\* FuzzyHashLengthEncoding::new(n) as the build has it
encode(n) ==
  IF build.clz THEN FuzzyHashLengthEncoding_new_by_clz(n)
  ELSE FuzzyHashLengthEncoding_new(n)

\* the last call is the encoding of a length that has one
Encoded ==
  /\ out # <<>>
  /\ Call.fn = "FuzzyHashLengthEncoding::new"
  /\ WLe(arg.len, MAX)

\* encode does not decrease around n: not from n - 1 to n, not from n to
\* n + 1, and not between n and any top value
NonDecreasingAt(n) ==
  /\ n # WZero => encode(WSub(n, WOne))[1] <= encode(n)[1]
  /\ n # MAX => encode(n)[1] <= encode(WAdd(n, WOne))[1]
  /\ \A i \in 1..ENCODED_VALUE_SIZE :
       LET top == TOP_VALUE_BY_ENCODING[i] IN
       /\ WLe(top, n) => encode(top)[1] <= encode(n)[1]
       /\ WLe(n, top) => encode(n)[1] <= encode(top)[1]

\* C18 as stated: encode is non-decreasing over the lengths from 0 to
\* LENGTH_TOP[169], and for each of these lengths n and every code k, n is
\* in [LENGTH_TOP[k - 1] + 1, LENGTH_TOP[k]] exactly when encode(n) = k,
\* with LENGTH_TOP[-1] = 0.
C18_AsStated ==
  Encoded =>
    /\ Call.ret = encode(arg.len)
    /\ NonDecreasingAt(arg.len)
    /\ \A k \in 0..(ENCODED_VALUE_SIZE - 1) :
         LET below == IF k = 0 THEN WZero ELSE TOP_VALUE_BY_ENCODING[k] IN
         (WLe(WAdd(below, WOne), arg.len)
          /\ WLe(arg.len, TOP_VALUE_BY_ENCODING[k + 1]))
         <=> Call.ret = <<k>>

\* C18: Length-code monotonicity.  encode is non-decreasing over the
\* lengths from 0 to LENGTH_TOP[169]; for each of these lengths n and
\* every code k >= 1, n is in [LENGTH_TOP[k - 1] + 1, LENGTH_TOP[k]]
\* exactly when encode(n) = k, and n is in [0, LENGTH_TOP[0]] exactly when
\* encode(n) = 0: the length 0 has the code 0 as well.
C18_Monotonicity ==
  Encoded =>
    /\ Call.ret = encode(arg.len)
    /\ NonDecreasingAt(arg.len)
    /\ \A k \in 0..(ENCODED_VALUE_SIZE - 1) :
         LET first == IF k = 0 THEN WZero
                      ELSE WAdd(TOP_VALUE_BY_ENCODING[k], WOne)
         IN (WLe(first, arg.len) /\ WLe(arg.len, TOP_VALUE_BY_ENCODING[k + 1]))
            <=> Call.ret = <<k>>

\* the length 0 has been encoded, by the narrowed search, and has the
\* code 0, whose lengths are 0 and LENGTH_TOP[0] = 1
C18_Witness ==
  /\ Encoded
  /\ build.clz
  /\ arg.len = WZero
  /\ Call.ret = <<0>>
  /\ TOP_VALUE_BY_ENCODING[1] = WOne

\* C19: range is the inverse of encode.  For a code k < 170 the range of
\* k holds exactly the lengths n with encode(n) = k: its two ends have
\* the code k and, of the lengths of LengthsOf, those inside it and no
\* other have the code k.  The range of 0 starts at 0, the range of every
\* other code starts one above the end of the range of the code before,
\* and the range of 169 ends at LENGTH_TOP[169].  A code k >= 170 has no
\* range, and a length above LENGTH_TOP[169] has no code.
C19_Inverse ==
  /\ (out # <<>> /\ Call.fn = "range") =>
       LET k == arg.lvalue IN
       IF k >= ENCODED_VALUE_SIZE THEN Call.ret = <<>>
       ELSE /\ Call.ret # <<>>
            /\ LET r == Call.ret[1] IN
               /\ WLe(r.start, r.end)
               /\ encode(r.start) = <<k>>
               /\ encode(r.end) = <<k>>
               /\ \A n \in LengthsOf :
                    (WLe(r.start, n) /\ WLe(n, r.end)) <=> encode(n) = <<k>>
               /\ k = 0 => r.start = WZero
               /\ k > 0 => r.start = WAdd(range(k - 1)[1].end, WOne)
               /\ k = ENCODED_VALUE_SIZE - 1 => r.end = MAX
  /\ (/\ out # <<>>
      /\ Call.fn = "FuzzyHashLengthEncoding::new"
      /\ WLt(MAX, arg.len))
     => Call.ret = <<>>

\* the range of the code 100 has been asked for: it starts one above
\* LENGTH_TOP[99] and ends at LENGTH_TOP[100]
C19_Witness ==
  /\ out # <<>>
  /\ Call.fn = "range"
  /\ arg.lvalue = 100
  /\ Call.ret = <<[start |-> WAdd(TOP_VALUE_BY_ENCODING[100], WOne),
                   end |-> TOP_VALUE_BY_ENCODING[101]]>>
  /\ encode(Call.ret[1].start) = <<100>>

\* C20: from_str_bytes with no prefix given returns, for a text as long
\* as a text with the prefix, what it returns with the prefix required
\* (the fuzzy hash or the error), for a text as long as a text without
\* the prefix what it returns with no prefix expected, and for a text of
\* any other length the error InvalidStringLength.
C20_AutoDetect ==
  (out # <<>> /\ Call.fn = "from_str_bytes" /\ Call.prefix = <<>>) =>
    CASE Len(arg.text) = LEN_IN_STR(ty) ->
           Call.ret = from_str_bytes(ty, build.strict_parser, arg.text,
                                     <<"WithVersion">>)
      [] Len(arg.text) = LEN_IN_STR(ty) - 2 ->
           Call.ret = from_str_bytes(ty, build.strict_parser, arg.text,
                                     <<"Empty">>)
      [] OTHER -> Call.ret = Err("InvalidStringLength")

\* a text in lower case without the prefix has been parsed with no prefix
\* given, and gave a fuzzy hash
C20_Witness ==
  /\ out # <<>>
  /\ Call.fn = "from_str_bytes"
  /\ Call.prefix = <<>>
  /\ Len(arg.text) = LEN_IN_STR(ty) - 2
  /\ ~IsTextOf("Empty")
  /\ Call.ret.err = ""
  /\ Call.ret = from_str_bytes(ty, build.strict_parser, arg.text, <<"Empty">>)

\* the last call is a parser, given a stored form of the fuzzy hash the
\* caller holds: its text with or without the prefix, or its binary form
ParsedStored ==
  /\ out # <<>>
  /\ self # <<>>
  /\ \/ /\ Call.fn = "from_str_bytes"
        /\ \E p \in {"Empty", "WithVersion"} :
             Call.prefix \in {<<>>, <<p>>} /\ IsTextOf(p)
     \/ Call.fn = "try_from" /\ IsBytesOf

\* C21: With strict-parser, from_str_bytes and try_from refuse the stored
\* form of a fuzzy hash whose length code is 170 or more (the length is
\* too large) and, for the type with 48 buckets and a checksum of one
\* byte, of one whose checksum is above 48 (the checksum is invalid), and
\* return the fuzzy hash for the codes up to 169 and the checksums up to
\* 48; without strict-parser they return the fuzzy hash for all of these.
C21_StrictParser ==
  ParsedStored =>
    LET large == self[1].lvalue >= 170
        invalid == ty = Short /\ self[1].checksum[1] > 48
    IN IF ~build.strict_parser THEN Call.ret = Ok(self[1])
       ELSE /\ (~large /\ ~invalid) => Call.ret = Ok(self[1])
            /\ (large \/ invalid) =>
                 Call.ret.err \in {"LengthIsTooLarge", "InvalidChecksum"}
            /\ (large /\ ~invalid) => Call.ret = Err("LengthIsTooLarge")
            /\ (invalid /\ ~large) => Call.ret = Err("InvalidChecksum")

\* the strict try_from has refused the binary form of a fuzzy hash with
\* the length code 170, whose checksum is valid
C21_Witness ==
  /\ ParsedStored
  /\ build.strict_parser
  /\ Call.fn = "try_from"
  /\ ty = Short
  /\ self[1].lvalue = 170
  /\ self[1].checksum[1] = 48
  /\ Call.ret = Err("LengthIsTooLarge")

\* C22 as stated: in every reachable state the bytes the generator has
\* recorded, len + tail_len, are at most 2^32 - 4.
C22_AsStated ==
  WLe(WAdd(gen.len, U(gen.tail_len)), WSub(TwoPow32, U(4)))

\* C22: It is len that saturates at 2^32 - 4.  In every reachable state
\* len is at most 2^32 - 4 and tail_len at most 4, so that len + tail_len
\* is at most 2^32; an update with more bytes than len has left before
\* 2^32 - 4 does what an update with only that many of them does, and the
\* further bytes are dropped.
C22_Saturation ==
  /\ [](/\ WLe(gen.len, WSub(TwoPow32, U(4)))
        /\ gen.tail_len <= 4
        /\ WLe(WAdd(gen.len, U(gen.tail_len)), TwoPow32))
  /\ [][(/\ result = <<>> /\ result' = <<>>
         /\ gen.tail_len = 4
         /\ WLt(WSub(WSub(TwoPow32, U(4)), gen.len), WSub(pos', pos)))
        => /\ gen'.len = WSub(TwoPow32, U(4))
           /\ gen' = generator_update(ty, gen,
                       slice(Input(input), pos,
                             WSub(WSub(TwoPow32, U(4)), gen.len)))]_vars

\* one byte more than 2^32 has been given: len is 2^32 - 4 and, with the
\* four bytes of the tail, the generator has recorded 2^32 bytes
C22_Witness ==
  /\ pos = WAdd(TwoPow32, WOne)
  /\ gen.len = WSub(TwoPow32, U(4))
  /\ WAdd(gen.len, U(gen.tail_len)) = TwoPow32

\* an update has been given bytes: the step from pos to pos'
Updated == result = <<>> /\ result' = <<>> /\ pos' # pos

\* C23: Window loop.  The first four bytes given to a fresh generator only
\* fill the tail: the checksum, the buckets and len stay as they were
\* made.  An update with one byte b4 that the generator accepts, the tail
\* being (b0, b1, b2, b3), replaces the checksum by its update with
\* (b4, b3), adds to every bucket the number of times it is among
\* b_mapping(2, b4, b3, b2), (3, b4, b3, b1), (5, b4, b2, b1),
\* (7, b4, b2, b0), (11, b4, b3, b0) and (13, b4, b1, b0), six increments
\* in all, each of a counter of 32 bits, and makes the tail
\* (b1, b2, b3, b4).
C23_WindowLoop ==
  [][/\ (Updated /\ WLe(pos', U(4))) =>
          /\ gen'.checksum = Generator_default(ty).checksum
          /\ gen'.buckets = Generator_default(ty).buckets
          /\ gen'.len = WZero
          /\ gen'.tail_len = WSmall(pos')
          /\ \A j \in 1..WSmall(pos') :
               gen'.tail[j] = at(slice(Input(input), WZero, pos'), j - 1)
     /\ (/\ Updated
         /\ pos' = WAdd(pos, WOne)
         /\ gen.tail_len = 4
         /\ WLt(gen.len, WSub(TwoPow32, U(4)))) =>
          LET b4 == at(slice(Input(input), pos, WOne), 0)
              b0 == gen.tail[1]
              b1 == gen.tail[2]
              b2 == gen.tail[3]
              b3 == gen.tail[4]
              B == ty.SIZE_BUCKETS
              index == <<b_mapping(B, 2, b4, b3, b2),
                         b_mapping(B, 3, b4, b3, b1),
                         b_mapping(B, 5, b4, b2, b1),
                         b_mapping(B, 7, b4, b2, b0),
                         b_mapping(B, 11, b4, b3, b0),
                         b_mapping(B, 13, b4, b1, b0)>>
          IN /\ gen'.checksum = checksum_update(ty, gen.checksum, b4, b3)
             /\ \A i \in 1..256 :
                  gen'.buckets[i] =
                    Wrap32(WAdd(gen.buckets[i],
                                U(Cardinality({j \in 1..6 :
                                                 index[j] + 1 = i}))))
             /\ gen'.tail = <<b1, b2, b3, b4>>
             /\ gen'.tail_len = 4
             /\ gen'.len = WAdd(gen.len, WOne)]_vars

\* the generator has taken the byte after the test vector
\* BUCKETS_FILLED_12_OF_48 one byte at a time: its tail ends with that
\* byte and some bucket counts more than one window
C23_Witness ==
  /\ result = <<>>
  /\ input = "BUCKETS_FILLED_12_OF_48"
  /\ WLt(U(4), pos) /\ WLe(pos, U(MaxHead))
  /\ gen.tail_len = 4
  /\ gen.len = WSub(pos, U(4))
  /\ gen.tail[4] = at(slice(Input(input), WSub(pos, WOne), WOne), 0)
  /\ \E i \in 1..256 : WLt(WOne, gen.buckets[i])

\* the value at the 0-based position k of the sequence v sorted in
\* ascending order
SortedAt(v, k) ==
  CHOOSE x \in {v[i] : i \in 1..Len(v)} :
    /\ Cardinality({i \in 1..Len(v) : WLt(v[i], x)}) <= k
    /\ k < Cardinality({i \in 1..Len(v) : WLe(v[i], x)})

\* the three pivots of the generator by the positions B/4 - 1, B/2 - 1 and
\* 3B/4 - 1 of its B effective counters in ascending order, all 1 when
\* the third is 0
Pivots ==
  LET B == ty.SIZE_BUCKETS
      buckets == buckets_data(B, gen.buckets)
      p1 == SortedAt(buckets, B \div 4 - 1)
      p2 == SortedAt(buckets, B \div 2 - 1)
      p3 == SortedAt(buckets, (3 * B) \div 4 - 1)
  IN IF p3 = WZero THEN <<WOne, WOne, WOne>> ELSE <<p1, p2, p3>>

\* C24: Whenever finalize_with_options returns a fuzzy hash, its body is
\* the aggregation of the B effective counters with the values at the
\* positions B/4 - 1, B/2 - 1 and 3B/4 - 1 of these counters in ascending
\* order as q1, q2 and q3 (all three 1 when the third is 0), and
\* q1 <= q2 <= q3.
C24_Pivots ==
  (result # <<>> /\ Returned.err = "") =>
    /\ WLe(Pivots[1], Pivots[2])
    /\ WLe(Pivots[2], Pivots[3])
    /\ Returned.hash[1].body
       = aggregate_buckets(buckets_data(ty.SIZE_BUCKETS, gen.buckets),
                           Pivots[1], Pivots[2], Pivots[3])

\* a fuzzy hash has been returned for counters with three different
\* pivots
C24_Witness ==
  /\ result # <<>>
  /\ Returned.err = ""
  /\ WLt(Pivots[1], Pivots[2])
  /\ WLt(Pivots[2], Pivots[3])
  /\ Returned.hash[1].body
     = aggregate_buckets(buckets_data(ty.SIZE_BUCKETS, gen.buckets),
                         Pivots[1], Pivots[2], Pivots[3])

\* C25: In the body of a fuzzy hash finalize_with_options returns, the
\* bucket i (0 <= i < B) with the counter v has the two bits 2 * (i mod 4)
\* and 2 * (i mod 4) + 1 of the byte B/4 - 1 - floor(i/4): they hold 3 if
\* v > q3, else 2 if v > q2, else 1 if v > q1, else 0, for the pivots q1,
\* q2 and q3, and quartile(i) returns them.
C25_BodyBits ==
  (result # <<>> /\ Returned.err = "") =>
    LET B == ty.SIZE_BUCKETS
        body == Returned.hash[1].body
        q1 == Pivots[1]
        q2 == Pivots[2]
        q3 == Pivots[3]
    IN /\ Len(body) = B \div 4
       /\ \A i \in 0..(B - 1) :
            LET v == gen.buckets[i + 1]
                code == CASE WLt(q3, v) -> 3
                          [] ~WLt(q3, v) /\ WLt(q2, v) -> 2
                          [] ~WLt(q2, v) /\ WLt(q1, v) -> 1
                          [] OTHER -> 0
                byte == body[(B \div 4 - 1 - i \div 4) + 1]
                shift == 2 * (i % 4)
            IN /\ (byte \div 2^shift) % 4 = code
               /\ quartile(body, i) = code

\* a fuzzy hash has been returned whose body has all four codes, one of
\* them for a counter equal to its pivot
C25_Witness ==
  /\ result # <<>>
  /\ Returned.err = ""
  /\ \A c \in 0..3 : \E i \in 0..(ty.SIZE_BUCKETS - 1) :
       quartile(Returned.hash[1].body, i) = c
  /\ \E i \in 0..(ty.SIZE_BUCKETS - 1) :
       /\ gen.buckets[i + 1] = Pivots[2]
       /\ quartile(Returned.hash[1].body, i) = 1

\* naive::distance(body1, body2) of compare/dist_body.rs, the reference
\* the tests compare every implementation with: over the four dibits of
\* every byte, the sum of naive::distance_dibits, which is the difference
\* of the two dibits with BODY_OUTLIER_VALUE in the place of 3
naive_distance(body1, body2) ==
  LET dibit(body, d) == (body[(d \div 4) + 1] \div 2^(2 * (d % 4))) % 4
      distance_dibits(x, y) ==
        LET diff == IF x >= y THEN x - y ELSE y - x
        IN IF diff = 3 THEN BODY_OUTLIER_VALUE ELSE diff
      sum[d \in 0..(4 * Len(body1))] ==
        IF d = 0 THEN 0
        ELSE sum[d - 1] + distance_dibits(dibit(body1, d - 1),
                                          dibit(body2, d - 1))
  IN sum[4 * Len(body1)]

\* the differences of the dibits of two bodies
DibitDiffs(body1, body2) ==
  {LET x == (body1[(d \div 4) + 1] \div 2^(2 * (d % 4))) % 4
       y == (body2[(d \div 4) + 1] \div 2^(2 * (d % 4))) % 4
   IN x - y : d \in 0..(4 * Len(body1) - 1)}

\* C26: For two bodies of 12, 32 or 64 bytes, the distance the packed
\* words give, on words of 32 bits and on words of 64 bits, is the total
\* of the reference: the sum over all dibits of the difference of the two
\* dibits, a difference of 3 counting 6.
C26_PseudoSimd ==
  (out # <<>> /\ Call.fn = "dist_body::distance")
    => /\ Len(self[1].body) \in {12, 32, 64}
       /\ Len(arg.body) = Len(self[1].body)
       /\ Call.ret = naive_distance(self[1].body, arg.body)

\* the packed words of 32 bits have given the distance of two bodies of
\* 12 bytes whose dibits differ by every amount from -3 to 3
C26_Witness ==
  /\ out # <<>> /\ Call.fn = "dist_body::distance"
  /\ Call.bits = 32
  /\ Len(self[1].body) = 12
  /\ DibitDiffs(self[1].body, arg.body) = -3..3
  /\ Call.ret = naive_distance(self[1].body, arg.body)

\* the generator of a build without opt-low-memory-buckets, with its 256
\* counters, after the bytes given so far
Wide ==
  generator_update(ty, Generator_default(ty),
                   slice(Input(input), WZero, pos))

\* C27: The increments at the indices that are no bucket of the type never
\* reach a fuzzy hash.  Between two calls the generator that drops them
\* (its array has the SIZE_BUCKETS counters of the type) holds the first
\* SIZE_BUCKETS counters of the generator that stores them in 256 counters
\* and the same checksum, tail and lengths, and finalize_with_options
\* returns the same for both with every options value; a call of
\* finalize_with_options leaves the generator and what it was given as
\* they are and returns what finalize_with_options is for the generator.
C27_DroppedIncrements ==
  /\ [](result = <<>> =>
         \A wide \in {Wide} :
           /\ Len(gen.buckets) = ty.SIZE_BUCKETS
           /\ Len(wide.buckets) = 256
           /\ gen = [wide EXCEPT !.buckets = buckets_data(ty.SIZE_BUCKETS, @)]
           /\ \A o \in AllOptions :
                finalize_with_options(ty, gen, o)
                = finalize_with_options(ty, wide, o))
  /\ [][result' # <<>> =>
          /\ gen' = gen /\ pos' = pos
          /\ result'[1].ret
             = finalize_with_options(ty, gen, result'[1].options)]_vars

\* a fuzzy hash of 48 buckets has been returned by the generator that
\* drops, where the other generator has counted at the index 48
C27_Witness ==
  /\ ty = Short
  /\ result # <<>> /\ result[1].ret.err = ""
  /\ Len(gen.buckets) = NUM_BUCKETS_SHORT
  /\ \E wide \in {Wide} :
       /\ wide.buckets[NUM_BUCKETS_SHORT + 1] # WZero
       /\ result[1].ret = finalize_with_options(ty, wide, result[1].options)

\* the same for 128 buckets, the other generator having counted at an
\* index of 128 or more
C27_WitnessNormal ==
  /\ ty = Normal
  /\ result # <<>> /\ result[1].ret.err = ""
  /\ Len(gen.buckets) = NUM_BUCKETS_NORMAL
  /\ \E i \in NUM_BUCKETS_NORMAL..255 : Wide.buckets[i + 1] # WZero

\* C28 as stated: no update makes a counter of the buckets smaller; after
\* every call of update each of the 256 counters is what it was before
\* the call, or more.
C28_AsStated ==
  [][Updated =>
       \A i \in 1..256 : WLe(gen.buckets[i], gen'.buckets[i])]_vars

\* the sum of the limbs k of the counters from..to of the buckets
RECURSIVE SumLimb(_, _, _, _)
SumLimb(buckets, k, from, to) ==
  IF from = to THEN buckets[from][k]
  ELSE SumLimb(buckets, k, from, (from + to) \div 2)
       + SumLimb(buckets, k, (from + to) \div 2 + 1, to)

\* the sum of the counters of the buckets, as a wide number
SumOfBuckets ==
  WNorm(SumLimb(gen.buckets, 1, 1, 256), SumLimb(gen.buckets, 2, 1, 256))

\* C28: The counters count modulo 2^32.  In every state the 256 counters
\* add up, modulo 2^32, to six times len, six increments for each byte the
\* window loop has taken; and an update after which six times len is
\* still below 2^32, so that no counter can have come back to 0, leaves
\* each counter what it was, or more.
C28_MonotoneUntilWrapped ==
  /\ [](Wrap32(SumOfBuckets) = Wrap32(WMul(gen.len, 6)))
  /\ [][(Updated /\ WLt(WMul(gen'.len, 6), TwoPow32)) =>
          \A i \in 1..256 : WLe(gen.buckets[i], gen'.buckets[i])]_vars

\* bytes have gone through the window loop, one counter has been
\* incremented more than once, and six times len is below 2^32
C28_Witness ==
  /\ WLt(U(TAIL_SIZE), pos)
  /\ WLt(WZero, gen.len)
  /\ WLt(WMul(gen.len, 6), TwoPow32)
  /\ \E i \in 1..256 : WLt(WOne, gen.buckets[i])
  /\ Wrap32(SumOfBuckets) = Wrap32(WMul(gen.len, 6))

\* C30: finalize_with_options always returns: a fuzzy hash or one of the
\* four errors of the generator, whatever the bytes given (none, fewer
\* than five, more than the generator counts) and whatever the options.
\* Once the checks of the length have let the call go on, the encoding of
\* the length exists; when a fuzzy hash is returned, the third pivot the
\* Q ratios are divided by is not 0 (the value at the position 3B/4 - 1 is
\* not 0, or the options have put 1 in its place), and both Q ratios, as
\* the options have them computed, are below 16.
C30_NeverPanics ==
  result # <<>> =>
    LET plen == processed_len(gen)
        len == IF plen = <<>> THEN U32_MAX ELSE plen[1]
        B == ty.SIZE_BUCKETS
        third == SortedAt(buckets_data(B, gen.buckets), (3 * B) \div 4 - 1)
        pure == PURE_INTEGER_QRATIO_COMPUTATION \in Options.compat_flags
        ratio(q) == IF pure THEN qratio_integer(q, Pivots[3])
                    ELSE qratio_f32(q, Pivots[3])
    IN /\ Returned # Panicked
       /\ Returned.err \in {"", TooLargeInput, TooSmallInput,
                            BucketsAreThreeQuarterEmpty, BucketsAreHalfEmpty}
       /\ Returned.err \notin {TooLargeInput, TooSmallInput}
            => FuzzyHashLengthEncoding_new(len) # <<>>
       /\ Returned.err = ""
            => /\ Len(Returned.hash) = 1
               /\ \/ third # WZero
                  \/ ALLOW_STATISTICALLY_WEAK_BUCKETS_QUARTER
                       \in Options.incompat_flags
               /\ Pivots[3] # WZero
               /\ ratio(Pivots[1]) \in 0..15
               /\ ratio(Pivots[2]) \in 0..15

\* a fuzzy hash has been returned for fewer than five bytes, the value at
\* the position 3B/4 - 1 of the counters being 0
C30_Witness ==
  /\ result # <<>> /\ Returned.err = ""
  /\ WLt(pos, U(WINDOW_SIZE))
  /\ SortedAt(buckets_data(ty.SIZE_BUCKETS, gen.buckets),
              (3 * ty.SIZE_BUCKETS) \div 4 - 1) = WZero
  /\ Pivots = <<WOne, WOne, WOne>>
  /\ ALLOW_SMALL_SIZE_FILES \in Options.incompat_flags

\* the threads that are calling the closure of the cell c
Initializers(c) ==
  {t \in 1..Callers : threads[t].pc = "closure" /\ threads[t].cell = c}

\* C29: Each of the five cells is written at most once.  However the
\* threads interleave, at most one of them at a time is calling the
\* closure of a cell, and only while the cell has no value; a value is
\* stored in a cell once at most; every thread that has come back from
\* get_or_init, among the first or later, holds the value of the cell; and
\* a cell that has a value is never written again.
C29_WriteOnce ==
  /\ [](\A c \in Cells :
          /\ Cardinality(Initializers(c)) <= 1
          /\ Initializers(c) # {} => cells[c].value = <<>>
          /\ cells[c].stores <= 1
          /\ (cells[c].stores = 1) = (cells[c].value # <<>>)
          /\ (cells[c].once = "Complete") = (cells[c].value # <<>>))
  /\ [](\A t \in 1..Callers :
          threads[t].pc = "got"
            => cells[threads[t].cell].value = <<threads[t].fn>>)
  /\ [][\A c \in Cells :
          /\ cells[c].value # <<>> => cells'[c] = cells[c]
          /\ (cells[c].value = <<>> /\ cells'[c].value # <<>>)
               => \E t \in Initializers(c) :
                    /\ Initializers(c) = {t}
                    /\ threads'[t].pc = "got"
                    /\ cells'[c].value = <<threads'[t].fn>>]_vars

\* two threads have called the same function before its cell had a value:
\* one has stored the value and holds it, the other is still at the Once
C29_Witness ==
  \E c \in Cells : \E t1, t2 \in 1..Callers :
    /\ t1 # t2
    /\ threads[t1].cell = c /\ threads[t1].pc = "got"
    /\ threads[t2].cell = c /\ threads[t2].pc = "initialize"
    /\ cells[c].stores = 1
    /\ cells[c].value = <<threads[t1].fn>>
====
